---- MODULE Spec2Model ----
(***************************************************************************)
(* Model of nvh::geometry (procedural meshes): Mesh::append,               *)
(* Mesh::flipWinding, Plane::add, Box::add, Sphere::add, Torus::add and    *)
(* RandomMengerSponge::add.                                                *)
(*                                                                         *)
(* Numbers: a float value v is kept as the integer v * Unit (fixed point). *)
(* Every value the generators compute from the segment counts and the      *)
(* sponge levels of the model is a multiple of 1/Unit, except the sines    *)
(* and cosines, which are rounded to it.  Indices are kept as naturals;    *)
(* the 32-bit wrap of uint32_t is out of reach at the sizes of the model.  *)
(*                                                                         *)
(* The application: the compute dispatch of raytracer.comp.glsl, main of   *)
(* the application with its single-time command buffers and its queue,     *)
(* and the memory type search of NRC::createBuffer.                        *)
(***************************************************************************)
EXTENDS Integers, Sequences, FiniteSets, TLC

VARIABLES geo, pre, op, calls, sponge, app, image, host, buf

vars == <<geo, pre, op, calls, sponge, app, image, host, buf>>

\* the variables of the application: the dispatch, the host and its queue, createBuffer
application == <<image, host, buf>>

\* ---- bounds of the model ------------------------------------------------
MaxSeg == 2        \* segment counts are drawn from 1..MaxSeg
MaxRows == 3       \* the h of a sphere is drawn from 1..MaxRows: at MaxRows the sphere has
                   \* rows of quads between its two pole rows
MaxLevel == 2      \* sponge levels are drawn from 0..MaxLevel
MaxCubes == 27     \* a pass of the sponge is followed on at most this many cubes, and so is
                   \* the loop of the boxes
MaxCalls == 2      \* calls made on the mesh
MaxPreVerts == 4   \* a call that appends is made on a mesh of at most this many vertices
RandMax == 2       \* rand() returns a value of 0..RandMax
MaxPushes == 10    \* the vertex loop of an append followed step by step makes at most this
                   \* many passes

\* ---- fixed point ----------------------------------------------------------
RECURSIVE Gcd(_, _)
Gcd(a, b) == IF b = 0 THEN a ELSE Gcd(b, a % b)

RECURSIVE LcmUpTo(_)
LcmUpTo(n) == IF n <= 1 THEN 1 ELSE LET l == LcmUpTo(n - 1) IN (l * n) \div Gcd(l, n)

RECURSIVE Pow(_, _)
Pow(b, e) == IF e <= 0 THEN 1 ELSE b * Pow(b, e - 1)

\* 1.0f
Unit == 4 * LcmUpTo(IF MaxRows > MaxSeg THEN MaxRows ELSE MaxSeg) * Pow(3, MaxLevel)

Abs(a) == IF a < 0 THEN 0 - a ELSE a

\* a * b / Unit, rounded down
Mul(a, b) == (a * b) \div Unit

\* the float values +infinity and NaN, outside the range of the finite values of the
\* model
Inf == Pow(2, 30)

NaN == 0 - Pow(2, 30)

IsFinite(v) == v # Inf /\ v # NaN

\* 1.0f / (float)n for an int n >= 0: a float division, +infinity for n = 0
Recip(n) == IF n = 0 THEN Inf ELSE Unit \div n

\* (float)k * v for an int k >= 0: 0 * infinity is NaN
Times(k, v) ==
    IF v = NaN THEN NaN ELSE IF v = Inf THEN (IF k = 0 THEN NaN ELSE Inf) ELSE k * v

\* (float)k / (float)n for ints k, n >= 0
Ratio(k, n) ==
    IF n = 0 THEN (IF k = 0 THEN NaN ELSE Inf) ELSE (k * Unit) \div n

\* a * b and a + b of floats of which none is infinite
MulF(a, b) == IF a = NaN \/ b = NaN THEN NaN ELSE Mul(a, b)

AddF(a, b) == IF a = NaN \/ b = NaN THEN NaN ELSE a + b

\* -a
NegF(a) == IF a = NaN THEN NaN ELSE 0 - a

\* cos of k * 15 degrees, k in 0..6, times 10000
CosQuadrant == <<10000, 9659, 8660, 7071, 5000, 2588, 0>>

\* cosf(2 * pi * n / d) and sinf(2 * pi * n / d), in twentyfourths of a turn
CosTurn(n, d) ==
    LET a == ((24 * n) \div d) % 24
        q == IF a <= 6 THEN CosQuadrant[a + 1]
             ELSE IF a <= 12 THEN 0 - CosQuadrant[12 - a + 1]
             ELSE IF a <= 18 THEN 0 - CosQuadrant[a - 12 + 1]
             ELSE CosQuadrant[24 - a + 1]
    IN  IF q < 0 THEN 0 - (((0 - q) * Unit) \div 10000) ELSE (q * Unit) \div 10000

SinTurn(n, d) == CosTurn(4 * n + 3 * d, 4 * d)

\* cosf and sinf of (float)n * (2 pi / (float)d): for d = 0 the angle is 0 * infinity
\* or infinity, and cosf and sinf of both are NaN
CosStep(n, d) == IF d = 0 THEN NaN ELSE CosTurn(n, d)

SinStep(n, d) == IF d = 0 THEN NaN ELSE SinTurn(n, d)

\* ---- glm ------------------------------------------------------------------
\* glm::mat4(1)
Identity ==
    << <<Unit, 0, 0, 0>>, <<0, Unit, 0, 0>>, <<0, 0, Unit, 0>>, <<0, 0, 0, Unit>> >>

\* glm::translate(glm::mat4(1), v)
Translate(v) ==
    << <<Unit, 0, 0, v[1]>>, <<0, Unit, 0, v[2]>>, <<0, 0, Unit, v[3]>>, <<0, 0, 0, Unit>> >>

\* glm::scale(glm::mat4(1), glm::vec3(s))
Scale(s) ==
    << <<s, 0, 0, 0>>, <<0, s, 0, 0>>, <<0, 0, s, 0>>, <<0, 0, 0, Unit>> >>

\* glm::rotate(glm::mat4(1), quarters * pi / 2, (0, 1, 0)), exact
RotateY(quarters) ==
    LET c == CosTurn(quarters, 4)
        s == SinTurn(quarters, 4)
    IN  << <<c, 0, s, 0>>, <<0, Unit, 0, 0>>, <<0 - s, 0, c, 0>>, <<0, 0, 0, Unit>> >>

\* glm::rotate(glm::mat4(1), quarters * pi / 2, (1, 0, 0)), exact
RotateX(quarters) ==
    LET c == CosTurn(quarters, 4)
        s == SinTurn(quarters, 4)
    IN  << <<Unit, 0, 0, 0>>, <<0, c, 0 - s, 0>>, <<0, s, c, 0>>, <<0, 0, 0, Unit>> >>

\* row i of a times column j of b
RowCol(a, b, i, j) ==
    Mul(a[i][1], b[1][j]) + Mul(a[i][2], b[2][j]) + Mul(a[i][3], b[3][j]) + Mul(a[i][4], b[4][j])

\* mat4 * mat4
MatMul(a, b) ==
    << <<RowCol(a, b, 1, 1), RowCol(a, b, 1, 2), RowCol(a, b, 1, 3), RowCol(a, b, 1, 4)>>,
       <<RowCol(a, b, 2, 1), RowCol(a, b, 2, 2), RowCol(a, b, 2, 3), RowCol(a, b, 2, 4)>>,
       <<RowCol(a, b, 3, 1), RowCol(a, b, 3, 2), RowCol(a, b, 3, 3), RowCol(a, b, 3, 4)>>,
       <<RowCol(a, b, 4, 1), RowCol(a, b, 4, 2), RowCol(a, b, 4, 3), RowCol(a, b, 4, 4)>> >>

\* row i of m times v
RowVec(m, v, i) ==
    Mul(m[i][1], v[1]) + Mul(m[i][2], v[2]) + Mul(m[i][3], v[3]) + Mul(m[i][4], v[4])

\* mat4 * vec4
MatVec(m, v) == <<RowVec(m, v, 1), RowVec(m, v, 2), RowVec(m, v, 3), RowVec(m, v, 4)>>

\* mat4 * vec4 for a vector whose components may be NaN: every component of the product
\* is a sum with a NaN term.  No infinite component reaches a product: when a segment
\* count is 0 the only grid index on that axis is 0, and 0 * infinity is NaN.
MatVecF(m, v) ==
    IF IsFinite(v[1]) /\ IsFinite(v[2]) /\ IsFinite(v[3]) THEN MatVec(m, v)
    ELSE <<NaN, NaN, NaN, NaN>>

\* ---- Vertex and Mesh ------------------------------------------------------
Vertex(position, normal, texcoord) ==
    [position |-> <<position[1], position[2], position[3], Unit>>,
     normal   |-> <<normal[1], normal[2], normal[3], 0>>,
     texcoord |-> <<texcoord[1], texcoord[2], 0, 0>>]

\* a default-constructed Mesh
EmptyMesh == [m_vertices |-> <<>>, m_indicesTriangles |-> <<>>, m_indicesOutline |-> <<>>]

\* ---- Mesh::append, Mesh::flipWinding -----------------------------------------
\* append with the indices of src copied as they are
appendNoOffset(this, src) ==
    [m_vertices |-> this.m_vertices \o src.m_vertices,
     m_indicesTriangles |-> this.m_indicesTriangles \o src.m_indicesTriangles,
     m_indicesOutline |-> this.m_indicesOutline \o src.m_indicesOutline]

\* this->append(src), src another object than this
append(this, src) ==
    LET offset == Len(this.m_vertices)
    IN  [m_vertices |-> this.m_vertices \o src.m_vertices,
         m_indicesTriangles |-> this.m_indicesTriangles \o
             [i \in 1..Len(src.m_indicesTriangles) |->
                 <<src.m_indicesTriangles[i][1] + offset,
                   src.m_indicesTriangles[i][2] + offset,
                   src.m_indicesTriangles[i][3] + offset>>],
         m_indicesOutline |-> this.m_indicesOutline \o
             [i \in 1..Len(src.m_indicesOutline) |->
                 <<src.m_indicesOutline[i][1] + offset,
                   src.m_indicesOutline[i][2] + offset>>]]

\* std::swap(t.x, t.y)
SwapXY(t) == <<t[2], t[1], t[3]>>

\* t.x = t.z; t.z = t.x, the swap without a temporary
SwapXZNoTemp(t) == <<t[3], t[2], t[3]>>

\* std::swap(t.x, t.z)
SwapXZ(t) == <<t[3], t[2], t[1]>>

flipWinding(this) ==
    [this EXCEPT !.m_indicesTriangles =
        [i \in 1..Len(this.m_indicesTriangles) |-> SwapXZ(this.m_indicesTriangles[i])]]

\* ---- Plane::add -----------------------------------------------------------------
\* the vertex of grid point (x, y) with "(xpos - 0.5f)" not doubled
PlaneVertexHalf(mat, xdim, ydim, x, y) ==
    LET xpos == x * (Unit \div xdim)
        ypos == y * (Unit \div ydim)
        vert == Vertex(<<xpos - Unit \div 2, ypos - Unit \div 2, 0>>, <<0, 0, Unit>>,
                       <<xpos, ypos>>)
    IN  [vert EXCEPT !.position = MatVec(mat, vert.position),
                     !.normal = MatVec(mat, vert.normal)]

\* the vertex of grid point (x, y) with its normal left as it is
PlaneVertexPlainNormal(mat, xdim, ydim, x, y) ==
    LET xpos == x * (Unit \div xdim)
        ypos == y * (Unit \div ydim)
        vert == Vertex(<<(xpos - Unit \div 2) * 2, (ypos - Unit \div 2) * 2, 0>>,
                       <<0, 0, Unit>>, <<xpos, ypos>>)
    IN  [vert EXCEPT !.position = MatVec(mat, vert.position)]

\* the vertex pushed for grid point (x, y)
PlaneVertex(mat, xdim, ydim, x, y) ==
    LET xmove == Recip(xdim)
        ymove == Recip(ydim)
        xpos == Times(x, xmove)
        ypos == Times(y, ymove)
        pos == <<IF IsFinite(xpos) THEN (xpos - Unit \div 2) * 2 ELSE xpos,
                 IF IsFinite(ypos) THEN (ypos - Unit \div 2) * 2 ELSE ypos, 0>>
        uv == <<xpos, ypos>>
        normal == <<0, 0, Unit>>
        vert == Vertex(pos, normal, uv)
    IN  [vert EXCEPT !.position = MatVecF(mat, vert.position),
                     !.normal = MatVec(mat, vert.normal)]

PlaneVertices(mat, xdim, ydim) ==
    [i \in 1..((ydim + 1) * (xdim + 1)) |->
        PlaneVertex(mat, xdim, ydim, (i - 1) % (xdim + 1), (i - 1) \div (xdim + 1))]

\* "upper tris" and "lower tris" of cell (x, y)
PlaneUpperTri(x, y, width, vertOffset) ==
    <<x + (y + 1) * width + vertOffset, x + y * width + vertOffset,
      (x + 1) + (y + 1) * width + vertOffset>>

\* "lower tris" with its last two indices exchanged
PlaneLowerTriClockwise(x, y, width, vertOffset) ==
    <<(x + 1) + (y + 1) * width + vertOffset, (x + 1) + y * width + vertOffset,
      x + y * width + vertOffset>>

PlaneLowerTri(x, y, width, vertOffset) ==
    <<(x + 1) + (y + 1) * width + vertOffset, x + y * width + vertOffset,
      (x + 1) + y * width + vertOffset>>

\* the triangle loop with the "lower tris" left out
PlaneTrianglesUpperOnly(xdim, ydim, vertOffset) ==
    [k \in 1..(xdim * ydim) |->
        PlaneUpperTri((k - 1) % xdim, (k - 1) \div xdim, xdim + 1, vertOffset)]

\* the triangle loops with "y <= ydim" and "x <= xdim"
PlaneTrianglesInclusive(xdim, ydim, vertOffset) ==
    LET width == xdim + 1
    IN  [k \in 1..(2 * (xdim + 1) * (ydim + 1)) |->
            LET c == (k - 1) \div 2
                x == c % (xdim + 1)
                y == c \div (xdim + 1)
            IN  IF k % 2 = 1 THEN PlaneUpperTri(x, y, width, vertOffset)
                ELSE PlaneLowerTri(x, y, width, vertOffset)]

PlaneTriangles(xdim, ydim, vertOffset) ==
    LET width == xdim + 1
    IN  [k \in 1..(2 * xdim * ydim) |->
            LET c == (k - 1) \div 2
                x == c % xdim
                y == c \div xdim
            IN  IF k % 2 = 1 THEN PlaneUpperTri(x, y, width, vertOffset)
                ELSE PlaneLowerTri(x, y, width, vertOffset)]

\* the outline loops with the second loop one column to the left
PlaneOutlineInnerColumn(xdim, ydim, vertOffset) ==
    LET width == xdim + 1
    IN  [y \in 1..ydim |-> <<(y - 1) * width + vertOffset, y * width + vertOffset>>]
        \o [y \in 1..ydim |->
               <<(y - 1) * width + xdim - 1 + vertOffset, y * width + xdim - 1 + vertOffset>>]
        \o [x \in 1..xdim |-> <<(x - 1) + vertOffset, x + vertOffset>>]
        \o [x \in 1..xdim |->
               <<(x - 1) + ydim * width + vertOffset, x + ydim * width + vertOffset>>]

\* the four outline loops, in the order of the code
PlaneOutline(xdim, ydim, vertOffset) ==
    LET width == xdim + 1
    IN  [y \in 1..ydim |-> <<(y - 1) * width + vertOffset, y * width + vertOffset>>]
        \o [y \in 1..ydim |->
               <<(y - 1) * width + xdim + vertOffset, y * width + xdim + vertOffset>>]
        \o [x \in 1..xdim |-> <<(x - 1) + vertOffset, x + vertOffset>>]
        \o [x \in 1..xdim |->
               <<(x - 1) + ydim * width + vertOffset, x + ydim * width + vertOffset>>]

\* Plane::add on a mesh it has cleared first
PlaneAddCleared(g, mat, w, h) ==
    [m_vertices |-> PlaneVertices(mat, w, h),
     m_indicesTriangles |-> PlaneTriangles(w, h, 0),
     m_indicesOutline |-> PlaneOutline(w, h, 0)]

PlaneAdd(g, mat, w, h) ==
    LET vertOffset == Len(g.m_vertices)
    IN  [m_vertices |-> g.m_vertices \o PlaneVertices(mat, w, h),
         m_indicesTriangles |-> g.m_indicesTriangles \o PlaneTriangles(w, h, vertOffset),
         m_indicesOutline |-> g.m_indicesOutline \o PlaneOutline(w, h, vertOffset)]

\* ---- Box::add -------------------------------------------------------------------
\* configs with {w, h} for every side
BoxConfigsAllWH(w, h, d) == << <<w, h>>, <<w, h>>, <<w, h>>, <<w, h>>, <<w, h>>, <<w, h>> >>

\* configs with {h, d} for the third and the fourth side
BoxConfigsHeightFirst(w, h, d) ==
    << <<w, h>>, <<w, h>>, <<h, d>>, <<h, d>>, <<w, d>>, <<w, d>> >>

BoxConfigs(w, h, d) == << <<w, h>>, <<w, h>>, <<d, h>>, <<d, h>>, <<w, d>>, <<w, d>> >>

\* matrixRot of side 0..5
BoxMatrixRot(side) ==
    CASE side = 0 -> Identity
      [] side = 1 -> RotateY(2)
      [] side = 2 -> RotateY(1)
      [] side = 3 -> RotateY(3)
      [] side = 4 -> RotateX(1)
      [] side = 5 -> RotateX(3)

BoxMatrixMove == Translate(<<0, 0, Unit>>)

RECURSIVE BoxSides(_, _, _, _, _, _)
\* the loop over the sides side..5
BoxSides(g, mat, w, h, d, side) ==
    IF side >= 6 THEN g
    ELSE BoxSides(
            PlaneAdd(g, MatMul(MatMul(mat, BoxMatrixRot(side)), BoxMatrixMove),
                     BoxConfigs(w, h, d)[side + 1][1], BoxConfigs(w, h, d)[side + 1][2]),
            mat, w, h, d, side + 1)

BoxAdd(g, mat, w, h, d) == BoxSides(g, mat, w, h, d, 0)

\* ---- Sphere::add ----------------------------------------------------------------
\* the vertex pushed for grid point (xy, z)
SphereVertex(mat, xydim, zdim, xy, z) ==
    LET xyshift == Recip(xydim)
        zshift == Recip(zdim)
        curxy == Times(xy, xyshift)
        curz == Times(z, zshift)
        cosxy == CosStep(xy, xydim)           \* anglexy = curxy * pi * 2
        sinxy == SinStep(xy, xydim)
        cosz == CosStep(zdim - z, 2 * zdim)   \* anglez = (1 - curz) * pi
        sinz == SinStep(zdim - z, 2 * zdim)
        pos == <<MulF(cosxy, sinz), MulF(sinxy, sinz), cosz>>
        normal == pos
        uv == <<curxy, curz>>
        vert == Vertex(pos, normal, uv)
    IN  [vert EXCEPT !.position = MatVecF(mat, vert.position),
                     !.normal = MatVecF(mat, vert.normal)]

SphereVertices(mat, xydim, zdim) ==
    [i \in 1..((zdim + 1) * (xydim + 1)) |->
        SphereVertex(mat, xydim, zdim, (i - 1) % (xydim + 1), (i - 1) \div (xydim + 1))]

\* the counter "vertex" when the loops are at (z, xy): one step per quad, one more per row
SphereVertexCounter(xydim, z, xy) == z * xydim + xy + z

\* the triangle pushed under "if(z != zdim - 1)"
SphereFirstTri(vertex, width, vertOffset) ==
    <<vertex + width + 1 + vertOffset, vertex + width + vertOffset, vertex + vertOffset>>

\* the triangle pushed under "if(z != 0)"
SphereSecondTri(vertex, width, vertOffset) ==
    <<vertex + vertOffset, vertex + 1 + vertOffset, vertex + width + 1 + vertOffset>>

\* the first triangle pushed in every row
SphereEmitsFirstAlways(z, zdim) == TRUE

SphereEmitsFirst(z, zdim) == z # zdim - 1

\* the second triangle pushed in every row
SphereEmitsSecondAlways(z, zdim) == TRUE

SphereEmitsSecond(z, zdim) == z # 0

SphereTriangles(xydim, zdim, vertOffset) ==
    LET width == xydim + 1
        cand == [k \in 1..(2 * xydim * zdim) |->
                    LET c == (k - 1) \div 2
                        z == c \div xydim
                        xy == c % xydim
                        vertex == SphereVertexCounter(xydim, z, xy)
                    IN  IF k % 2 = 1
                        THEN [emit |-> SphereEmitsFirst(z, zdim),
                              tri |-> SphereFirstTri(vertex, width, vertOffset)]
                        ELSE [emit |-> SphereEmitsSecond(z, zdim),
                              tri |-> SphereSecondTri(vertex, width, vertOffset)]]
        kept == SelectSeq(cand, LAMBDA e : e.emit)
    IN  [k \in 1..Len(kept) |-> kept[k].tri]

\* the outline loops with "xydim * (i / 4)" in the place of "(xydim * i) / 4"
SphereOutlineOneMeridian(xydim, zdim, vertOffset) ==
    LET width == xydim + 1
        middlez == zdim \div 2
    IN  [k \in 1..xydim |->
            <<middlez * width + (k - 1) + vertOffset, middlez * width + (k - 1) + 1 + vertOffset>>]
        \o [k \in 1..(4 * zdim) |->
               LET i == (k - 1) \div zdim
                   z == (k - 1) % zdim
                   x == xydim * (i \div 4)
               IN  <<x + width * z + vertOffset, x + width * (z + 1) + vertOffset>>]

SphereOutline(xydim, zdim, vertOffset) ==
    LET width == xydim + 1
        middlez == zdim \div 2
    IN  [k \in 1..xydim |->
            <<middlez * width + (k - 1) + vertOffset, middlez * width + (k - 1) + 1 + vertOffset>>]
        \o [k \in 1..(4 * zdim) |->
               LET i == (k - 1) \div zdim
                   z == (k - 1) % zdim
                   x == (xydim * i) \div 4
               IN  <<x + width * z + vertOffset, x + width * (z + 1) + vertOffset>>]

SphereAdd(g, mat, w, h) ==
    LET vertOffset == Len(g.m_vertices)
    IN  [m_vertices |-> g.m_vertices \o SphereVertices(mat, w, h),
         m_indicesTriangles |-> g.m_indicesTriangles \o SphereTriangles(w, h, vertOffset),
         m_indicesOutline |-> g.m_indicesOutline \o SphereOutline(w, h, vertOffset)]

\* ---- Torus::add -----------------------------------------------------------------
\* the vertex pushed for (latitude, longitude); the matrix is not used
TorusVertex(w, h, latitude, longitude) ==
    LET innerRadius == (8 * Unit) \div 10
        outerRadius == (2 * Unit) \div 10
        sinTheta == SinStep(latitude, h)      \* theta_step = 2 pi / hf
        cosTheta == CosStep(latitude, h)
        radius == AddF(innerRadius, MulF(outerRadius, cosTheta))
        sinPhi == SinStep(longitude, w)       \* phi_step = 2 pi / wf
        cosPhi == CosStep(longitude, w)
        position == <<MulF(radius, cosPhi), MulF(outerRadius, sinTheta),
                      MulF(radius, NegF(sinPhi))>>
        normal == <<MulF(cosPhi, cosTheta), sinTheta, MulF(NegF(sinPhi), cosTheta)>>
        uv == <<Ratio(longitude, w), Ratio(latitude, h)>>
    IN  Vertex(position, normal, uv)

\* latitude runs over 0..w (outer loop), longitude over 0..h (inner loop)
TorusVertices(w, h) ==
    [i \in 1..((w + 1) * (h + 1)) |->
        TorusVertex(w, h, (i - 1) \div (h + 1), (i - 1) % (h + 1))]

TorusColumns(w, h) == w + 1

TorusTriangle1(latitude, longitude, columns) ==
    <<latitude * columns + longitude, latitude * columns + longitude + 1,
      (latitude + 1) * columns + longitude>>

TorusTriangle2(latitude, longitude, columns) ==
    <<(latitude + 1) * columns + longitude, latitude * columns + longitude + 1,
      (latitude + 1) * columns + longitude + 1>>

\* the triangle loops with both bounds w
TorusTrianglesSquare(w, h) ==
    LET columns == TorusColumns(w, h)
    IN  [k \in 1..(2 * w * w) |->
            LET c == (k - 1) \div 2
            IN  IF k % 2 = 1 THEN TorusTriangle1(c \div w, c % w, columns)
                ELSE TorusTriangle2(c \div w, c % w, columns)]

TorusTriangles(w, h) ==
    LET columns == TorusColumns(w, h)
    IN  [k \in 1..(2 * w * h) |->
            LET c == (k - 1) \div 2
                latitude == c \div h
                longitude == c % h
            IN  IF k % 2 = 1 THEN TorusTriangle1(latitude, longitude, columns)
                ELSE TorusTriangle2(latitude, longitude, columns)]

TorusOutline(w, h) ==
    LET columns == TorusColumns(w, h)
    IN  [k \in 1..(4 * w) |->
            LET longitude == (k - 1) \div 4
                y == (k - 1) % 4
                latitude == (y * h) \div 4    \* y * (0.25 * h), truncated
            IN  <<latitude * columns + longitude, latitude * columns + longitude + 1>>]
        \o [k \in 1..(4 * h) |->
               LET x == (k - 1) \div h
                   latitude == (k - 1) % h
                   longitude == (x * w) \div 4   \* x * (0.25 * w), truncated
               IN  <<latitude * columns + longitude, (latitude + 1) * columns + longitude>>]

TorusAdd(g, mat, w, h) ==
    [m_vertices |-> g.m_vertices \o TorusVertices(w, h),
     m_indicesTriangles |-> g.m_indicesTriangles \o TorusTriangles(w, h),
     m_indicesOutline |-> g.m_indicesOutline \o TorusOutline(w, h)]

\* ---- RandomMengerSponge::add ----------------------------------------------------
\* the (x, y, z) of the three nested loops, in loop order
SubCubeGrid == [i \in 1..27 |-> <<(i - 1) \div 9, ((i - 1) \div 3) % 3, (i - 1) % 3>>]

\* {topLeftFront, size} pushed for grid position g of cube c
SubCube(c, g) ==
    LET size == c.m_size \div 3
    IN  [m_topLeftFront |-> <<c.m_topLeftFront[1] + g[1] * size,
                              c.m_topLeftFront[2] + g[2] * size,
                              c.m_topLeftFront[3] + g[3] * size>>,
         m_size |-> size]

\* Cube::split without its last "continue" test
SplitSkipsTwoTests(g) ==
    \/ g[1] = 1 /\ g[2] = 1
    \/ g[1] = 1 /\ g[3] = 1

\* the three "continue" tests of Cube::split
SplitSkips(g) ==
    \/ g[1] = 1 /\ g[2] = 1
    \/ g[1] = 1 /\ g[3] = 1
    \/ g[2] = 1 /\ g[3] = 1

\* Cube::split: the cubes it pushes, in order
split(c) ==
    LET kept == SelectSeq(SubCubeGrid, LAMBDA g : ~SplitSkips(g))
    IN  [k \in 1..Len(kept) |-> SubCube(c, kept[k])]

\* rand(): the n-th value (n = 0, 1, ...) of the stream (seed, stride)
Rand(stream, n) == (stream.seed + stream.stride * n) % (RandMax + 1)

\* "sample >= prob" in the place of "sample > prob"
SplitProbSkipsAtOrAbove(r, prob) == r * prob[2] >= prob[1] * RandMax

\* "sample > prob" for sample = r / RAND_MAX and prob = prob[1] / prob[2]
SplitProbSkips(r, prob) == r * prob[2] > prob[1] * RandMax

\* Cube::splitProb, its 27 draws being the draws first, first + 1, ... of the stream
splitProb(c, prob, stream, first) ==
    LET idx == SelectSeq([i \in 1..27 |-> i],
                         LAMBDA i : ~SplitProbSkips(Rand(stream, first + i - 1), prob))
    IN  [k \in 1..Len(idx) |-> SubCube(c, SubCubeGrid[idx[k]])]

\* "probability < 0.f"
Deterministic(prob) == prob[1] < 0

RECURSIVE SplitAll(_, _, _, _, _)
\* the loop "for(Cube& c : *previous)" from cube number j on, pushing to next
SplitAll(previous, next, prob, stream, j) ==
    IF j > Len(previous) THEN next
    ELSE SplitAll(previous,
                  next \o (IF Deterministic(prob) THEN split(previous[j])
                           ELSE splitProb(previous[j], prob, stream, stream.used + 27 * (j - 1))),
                  prob, stream, j + 1)

\* one pass of the loop over the levels without "next->clear()"
SpongeRoundNoClear(st, prob) ==
    LET filled == SplitAll(st.previous, st.next, prob, st.stream, 1)
    IN  [previous |-> filled,
         next |-> st.previous,
         stream |-> [st.stream EXCEPT !.used =
                        IF Deterministic(prob) THEN @ ELSE @ + 27 * Len(st.previous)]]

\* one pass of the loop over the levels: split, swap the buffers, clear the new next
SpongeRound(st, prob) ==
    LET filled == SplitAll(st.previous, st.next, prob, st.stream, 1)
    IN  [previous |-> filled,
         next |-> <<>>,
         stream |-> [st.stream EXCEPT !.used =
                        IF Deterministic(prob) THEN @ ELSE @ + 27 * Len(st.previous)]]

InitialCube == [m_topLeftFront |-> <<0 - Unit \div 4, 0 - Unit \div 4, 0 - Unit \div 4>>,
                m_size |-> Unit \div 2]

SpongeStart(stream) ==
    [previous |-> <<InitialCube>>, next |-> <<>>, stream |-> stream]

RECURSIVE SpongeRoundsInclusive(_, _, _, _)
\* the loop over the levels with "i <= level"
SpongeRoundsInclusive(st, prob, i, level) ==
    IF i <= level THEN SpongeRoundsInclusive(SpongeRound(st, prob), prob, i + 1, level) ELSE st

RECURSIVE SpongeRounds(_, _, _, _)
\* the loop "for(int i = 0; i < level; i++)" from pass i on
SpongeRounds(st, prob, i, level) ==
    IF i < level THEN SpongeRounds(SpongeRound(st, prob), prob, i + 1, level) ELSE st

RECURSIVE SpongeWithin(_, _, _, _)
\* every pass and the loop of the boxes find at most MaxCubes cubes
SpongeWithin(st, prob, i, level) ==
    /\ Len(st.previous) <= MaxCubes
    /\ i < level => SpongeWithin(SpongeRound(st, prob), prob, i + 1, level)

\* the cubes of *previous when the loop over the levels has ended
SpongeCubes(level, prob, stream) == SpongeRounds(SpongeStart(stream), prob, 0, level).previous

\* the matrix of the Box of cube c
SpongeBoxMatrix(c) == MatMul(Translate(c.m_topLeftFront), Scale(c.m_size))

RECURSIVE SpongeBoxes(_, _, _, _)
\* the final loop "for(Cube& c : *previous)" over the cubes lo..hi, in order; the
\* mesh so far is evaluated before the next Box is added to it
SpongeBoxes(g, cubes, lo, hi) ==
    IF lo > hi \/ Len(g.m_vertices) < 0 THEN g
    ELSE IF lo = hi THEN BoxAdd(g, SpongeBoxMatrix(cubes[lo]), 1, 1, 1)
    ELSE LET mid == (lo + hi) \div 2
         IN  SpongeBoxes(SpongeBoxes(g, cubes, lo, mid), cubes, mid + 1, hi)

\* mat, w, h and d are not used
RandomMengerSpongeAdd(g, mat, w, h, d, level, prob, stream) ==
    LET cubes == SpongeCubes(level, prob, stream)
    IN  SpongeBoxes(g, cubes, 1, Len(cubes))

\* ---- inputs -----------------------------------------------------------------------
Segments == 1..MaxSeg

\* the h of a sphere
SphereRows == 1..MaxRows

\* segment counts, 0 among them
SegmentsOrNone == 0..MaxSeg

SphereRowsOrNone == 0..MaxRows

Levels == 0..MaxLevel

\* the levels of a call followed pass by pass: an int, a negative one among them
LevelsOrBelow == (0 - 1)..MaxLevel

\* the matrix a caller passes: none, a translation, a uniform scale
Transforms == {Identity, Translate(<<Unit, 2 * Unit, 3 * Unit>>), Scale(2 * Unit)}

\* the matrices passed to the calls that do not read their matrix
UnusedTransforms == {Identity, Translate(<<Unit, 2 * Unit, 3 * Unit>>)}

\* probability, as <<numerator, denominator>>: the default -1.f, 0, 1/2 and 1
Probabilities == {<<0 - 1, 1>>, <<0, 1>>, <<1, 2>>, <<1, 1>>}

\* the probabilities of the calls followed as a whole
CallProbabilities == {<<0 - 1, 1>>, <<0, 1>>, <<1, 1>>}

\* what rand() returns during one call
Streams == [seed : 0..RandMax, stride : {0, 1}, used : {0}]

NoStream == [seed |-> 0, stride |-> 0, used |-> 0]

\* what rand() returns during a call followed as a whole: always 0, always RAND_MAX,
\* or 0, 1, 2, ...
CallStreams == {st \in Streams : st.seed = 0 \/ (st.stride = 0 /\ st.seed = RandMax)}

\* meshes built elsewhere by the same calls, to be appended
SourceMeshes ==
    {PlaneAdd(EmptyMesh, Identity, 1, 1),
     flipWinding(SphereAdd(EmptyMesh, Identity, 2, 2)),
     TorusAdd(PlaneAdd(EmptyMesh, Identity, 1, 1), Identity, 1, 1)}

\* ---- state ------------------------------------------------------------------------
\* geo: the mesh; pre: the mesh before the last call; op: the last call;
\* calls: the number of calls made;
\* sponge: the locals of a RandomMengerSponge::add call followed pass by pass;
\* app: the locals of a Mesh::append call followed step by step

\* no call of RandomMengerSponge::add is under way
SpongeIdle ==
    [pc |-> "idle", previous |-> <<>>, next |-> <<>>, stream |-> [NoStream EXCEPT !.used = 0],
     i |-> 0, level |-> 0, prob |-> <<0 - 1, 1>>, before |-> <<>>]

\* no call of Mesh::append is under way.  self: the argument is the receiver itself;
\* src: the argument when it is another mesh; i: the loop counter; offset: the local
\* offset; count: the number of vertices of the argument when the call was made
AppendIdle ==
    [pc |-> "idle", self |-> FALSE, src |-> EmptyMesh, i |-> 0, offset |-> 0, count |-> 0]

NoOp ==
    [name |-> "none", mat |-> Identity, w |-> 0, h |-> 0, d |-> 0, level |-> 0,
     prob |-> <<0 - 1, 1>>, stream |-> NoStream, src |-> EmptyMesh]

\* ---- the compute dispatch (main of the application, raytracer.comp.glsl) ----------------
\* the constants of the application and of the shader
img_width == 800
img_height == 600
workgroup_width == 16
workgroup_height == 8
local_size_x == 16
local_size_y == 8
resolution == <<800, 600>>

\* the dispatch is followed invocation by invocation at sizes of
\* 1..MaxWidth by 1..MaxHeight pixels, with workgroups of 1..MaxLocal by 1..MaxLocal
\* invocations, as long as it has at most MaxInvocations invocations
MaxWidth == 3
MaxHeight == 2
MaxLocal == 2
MaxInvocations == 8

\* the group count handed to vkCmdDispatch for one dimension; the uint32_t and uint
\* values of the dispatch and of the shader stay below 3 * 800 * 600, far from
\* the wrap at 2^32
GroupCount(size, local) == (size + local - 1) \div local

\* the floats of the storage buffer: bufferSizeBytes / sizeof(float)
BufferFloats(width, height) == width * height * 3

\* gl_GlobalInvocationID.xy of the invocations of a dispatch
GlobalInvocations(groups, local) ==
    (0..(groups[1] * local[1] - 1)) \X (0..(groups[2] * local[2] - 1))

\* main with a guard that lets the first column and row beyond the resolution pass
mainInclusiveGuard(res, id) ==
    IF id[1] > res[1] \/ id[2] > res[2]
    THEN {}
    ELSE LET index == id[2] * res[1] + id[1]
         IN  {3 * index + c : c \in 0..2}

\* main of the shader for an invocation: the elements of imageData it writes
main(res, id) ==
    IF id[1] >= res[1] \/ id[2] >= res[2]
    THEN {}
    ELSE LET index == id[2] * res[1] + id[1]
         IN  {3 * index + c : c \in 0..2}

\* the sizes at which the dispatch is followed: the image, and the workgroup of
\* the shader and of the host, which agree as they do in the sources
DispatchSizes ==
    {size \in [res : (1..MaxWidth) \X (1..MaxHeight), local : (1..MaxLocal) \X (1..MaxLocal)] :
        Cardinality(GlobalInvocations(
            <<GroupCount(size.res[1], size.local[1]), GroupCount(size.res[2], size.local[2])>>,
            size.local)) <= MaxInvocations}

\* no dispatch recorded yet
ImageIdle ==
    [pc |-> "idle", res |-> <<0, 0>>, local |-> <<1, 1>>, pending |-> {},
     imageData |-> <<>>, stray |-> {}]

\* the dispatch starts: every invocation is to run, no element is written.
\* imageData[e] holds the invocations that wrote element e, stray the writes
\* that fell outside the buffer
DispatchStart(size) ==
    [pc |-> "running", res |-> size.res, local |-> size.local,
     pending |-> GlobalInvocations(
                     <<GroupCount(size.res[1], size.local[1]),
                       GroupCount(size.res[2], size.local[2])>>, size.local),
     imageData |-> [e \in 0..(BufferFloats(size.res[1], size.res[2]) - 1) |-> {}],
     stray |-> {}]

\* one invocation runs main
InvocationRun(im, id) ==
    LET written == main(im.res, id)
    IN  [im EXCEPT !.pending = @ \ {id},
                   !.imageData = [e \in DOMAIN @ |-> IF e \in written THEN @[e] \cup {id}
                                                                       ELSE @[e]],
                   !.stray = @ \cup {<<id, e>> : e \in written \ DOMAIN im.imageData}]

\* ---- the host program of the application and its queue --------------------------------
\* a statement of the host: the call, the object it is made on, the objects it names
Stmt(call, target, uses) == [call |-> call, target |-> target, uses |-> uses]

beginSingleTimeCommandRecord(cmdPool, cmdBuffer) ==
    <<Stmt("vkAllocateCommandBuffers", cmdBuffer, {cmdPool}),
      Stmt("vkBeginCommandBuffer", cmdBuffer, {})>>

\* endSubmitSingleTimeCommandRecord freeing the command buffer before the wait
endSubmitFreesBeforeWait(queue, cmdPool, cmdBuffer) ==
    <<Stmt("vkEndCommandBuffer", cmdBuffer, {}),
      Stmt("vkQueueSubmit", queue, {cmdBuffer}),
      Stmt("vkFreeCommandBuffers", cmdBuffer, {cmdPool}),
      Stmt("vkQueueWaitIdle", queue, {})>>

endSubmitSingleTimeCommandRecord(queue, cmdPool, cmdBuffer) ==
    <<Stmt("vkEndCommandBuffer", cmdBuffer, {}),
      Stmt("vkQueueSubmit", queue, {cmdBuffer}),
      Stmt("vkQueueWaitIdle", queue, {}),
      Stmt("vkFreeCommandBuffers", cmdBuffer, {cmdPool})>>

\* the Vulkan calls of NRC::createBuffer; its search of the memory type is
\* followed on its own below
createBuffer(buffer, bufferMemory) ==
    <<Stmt("vkCreateBuffer", buffer, {}),
      Stmt("vkAllocateMemory", bufferMemory, {}),
      Stmt("vkBindBufferMemory", buffer, {bufferMemory})>>

copyBuffer(cmdBuffer, srcBuffer, dstBuffer) ==
    <<Stmt("vkCmdCopyBuffer", cmdBuffer, {srcBuffer, dstBuffer})>>

\* main of the application, from the command pool to the clean up
mainProgram ==
    <<Stmt("vkCreateCommandPool", "cmdPool", {}),
      Stmt("allocator.createBuffer", "stgBuffer", {})>>
    \o beginSingleTimeCommandRecord("cmdPool", "storage2LocalCmdBuffer")
    \o createBuffer("tempStagingBuffer2vertex", "tempStagingBufferMemory2vertex")
    \o <<Stmt("vkMapMemory", "tempStagingBufferMemory2vertex", {}),
         Stmt("memcpy", "tempStagingBufferMemory2vertex", {}),
         Stmt("vkUnmapMemory", "tempStagingBufferMemory2vertex", {})>>
    \o createBuffer("vertexBuffer", "vertexBufferMemory")
    \o copyBuffer("storage2LocalCmdBuffer", "tempStagingBuffer2vertex", "vertexBuffer")
    \o createBuffer("tempStagingBuffer2index", "tempStagingBufferMemory2index")
    \o <<Stmt("vkMapMemory", "tempStagingBufferMemory2index", {}),
         Stmt("memcpy", "tempStagingBufferMemory2index", {}),
         Stmt("vkUnmapMemory", "tempStagingBufferMemory2index", {})>>
    \o createBuffer("indexBuffer", "indexBufferMemory")
    \o copyBuffer("storage2LocalCmdBuffer", "tempStagingBuffer2index", "indexBuffer")
    \o endSubmitSingleTimeCommandRecord("m_queueGCT", "cmdPool", "storage2LocalCmdBuffer")
    \o <<Stmt("vkDestroyBuffer", "tempStagingBuffer2vertex", {}),
         Stmt("vkDestroyBuffer", "tempStagingBuffer2index", {}),
         Stmt("vkFreeMemory", "tempStagingBufferMemory2vertex", {}),
         Stmt("vkFreeMemory", "tempStagingBufferMemory2index", {}),
         Stmt("nvvk::createShaderModule", "rayTracerShaderModule", {}),
         Stmt("vkCreateDescriptorSetLayout", "descriptorSetLayout", {}),
         Stmt("vkCreateDescriptorPool", "descriptorPool", {}),
         Stmt("vkAllocateDescriptorSets", "descriptorsets",
              {"descriptorPool", "descriptorSetLayout"}),
         Stmt("vkUpdateDescriptorSets", "descriptorsets", {"stgBuffer"}),
         Stmt("vkCreatePipelineLayout", "pipelineLayout", {"descriptorSetLayout"}),
         Stmt("vkCreateComputePipelines", "computePipeline",
              {"pipelineLayout", "rayTracerShaderModule"})>>
    \o beginSingleTimeCommandRecord("cmdPool", "cmdBuffer")
    \o <<Stmt("vkCmdBindPipeline", "cmdBuffer", {"computePipeline"}),
         Stmt("vkCmdBindDescriptorSets", "cmdBuffer", {"pipelineLayout", "descriptorsets"}),
         Stmt("vkCmdDispatch", "cmdBuffer", {}),
         Stmt("vkCmdPipelineBarrier", "cmdBuffer", {})>>
    \o endSubmitSingleTimeCommandRecord("m_queueGCT", "cmdPool", "cmdBuffer")
    \o <<Stmt("allocator.map", "stgBuffer", {}),
         Stmt("stbi_write_hdr", "stgBuffer", {}),
         Stmt("allocator.unmap", "stgBuffer", {}),
         Stmt("vkDestroyBuffer", "vertexBuffer", {}),
         Stmt("vkDestroyBuffer", "indexBuffer", {}),
         Stmt("vkFreeMemory", "vertexBufferMemory", {}),
         Stmt("vkFreeMemory", "indexBufferMemory", {}),
         Stmt("vkDestroyDescriptorPool", "descriptorPool", {}),
         Stmt("vkDestroyDescriptorSetLayout", "descriptorSetLayout", {}),
         Stmt("vkDestroyShaderModule", "rayTracerShaderModule", {}),
         Stmt("vkDestroyPipelineLayout", "pipelineLayout", {}),
         Stmt("vkDestroyPipeline", "computePipeline", {}),
         Stmt("vkDestroyCommandPool", "cmdPool", {}),
         Stmt("allocator.destroy", "stgBuffer", {})>>

\* the calls by what they do
Creates ==
    {"vkCreateCommandPool", "allocator.createBuffer", "vkCreateBuffer", "vkAllocateMemory",
     "nvvk::createShaderModule", "vkCreateDescriptorSetLayout", "vkCreateDescriptorPool",
     "vkAllocateDescriptorSets", "vkCreatePipelineLayout", "vkCreateComputePipelines"}

Binds == {"vkBindBufferMemory", "vkUpdateDescriptorSets"}

Records ==
    {"vkCmdCopyBuffer", "vkCmdBindPipeline", "vkCmdBindDescriptorSets", "vkCmdDispatch",
     "vkCmdPipelineBarrier"}

HostWrites == {"vkMapMemory", "memcpy", "vkUnmapMemory"}

HostReads == {"allocator.map", "stbi_write_hdr", "allocator.unmap"}

Destroys ==
    {"vkDestroyBuffer", "vkFreeMemory", "vkDestroyDescriptorPool",
     "vkDestroyDescriptorSetLayout", "vkDestroyShaderModule", "vkDestroyPipelineLayout",
     "vkDestroyPipeline", "vkDestroyCommandPool", "allocator.destroy"}

CommandBuffers == {"storage2LocalCmdBuffer", "cmdBuffer"}

Objects == {mainProgram[k].target : k \in {j \in DOMAIN mainProgram :
                                              mainProgram[j].call \in Creates}}

\* the host before vkCreateCommandPool: pc statements of main are done, no
\* object exists, the queue is empty, nothing is logged
HostIdle ==
    [pc |-> 0, waiting |-> FALSE,
     objects |-> [x \in Objects |-> "none"],
     refs |-> [x \in Objects |-> {}],
     cmd |-> [c \in CommandBuffers |-> [state |-> "none", commands |-> <<>>]],
     queue |-> <<>>, log |-> <<>>, hazards |-> {}]

\* the objects an object refers to, itself included, through the memory bound to
\* a buffer, the buffer written into a descriptor set and what it was created from
RECURSIVE Reach(_, _, _)
Reach(h, xs, n) ==
    IF n = 0 THEN xs
    ELSE Reach(h, xs \cup UNION {h.refs[x] : x \in xs \cap Objects}, n - 1)

\* the objects the commands recorded in a command buffer use
UsedBy(h, c) ==
    Reach(h, UNION {h.cmd[c].commands[k].uses : k \in DOMAIN h.cmd[c].commands}, 3)

\* a command buffer is pending from its submission until a wait returns
Pending(h) == {c \in CommandBuffers : h.cmd[c].state = "pending"}

InUse(h, x) == \E c \in Pending(h) : x = c \/ x \in UsedBy(h, c)

\* the next statement of the host
HostAt(h) == mainProgram[h.pc + 1]

\* the statement is done and logged
HostDone(h, stmt, hazard) ==
    [h EXCEPT !.pc = @ + 1,
              !.log = Append(@, [call |-> stmt.call, target |-> stmt.target,
                                 uses |-> stmt.uses, retired |-> {}]),
              !.hazards = @ \cup hazard]

\* ---- createBuffer: the search of the memory type ----------------------------------------
\* a device has up to MaxTypes memory types
MaxTypes == 2

\* the bits of VkMemoryPropertyFlags the application asks for
VK_MEMORY_PROPERTY_DEVICE_LOCAL_BIT == 1
VK_MEMORY_PROPERTY_HOST_VISIBLE_BIT == 2
VK_MEMORY_PROPERTY_HOST_COHERENT_BIT == 4

\* a & b on unsigned values
RECURSIVE BitAnd(_, _)
BitAnd(a, b) ==
    IF a = 0 \/ b = 0 THEN 0
    ELSE (a % 2) * (b % 2) + 2 * BitAnd(a \div 2, b \div 2)

\* propertyFlags of a memory type: any of the three bits
PropertyFlags ==
    0..(VK_MEMORY_PROPERTY_DEVICE_LOCAL_BIT + VK_MEMORY_PROPERTY_HOST_VISIBLE_BIT
        + VK_MEMORY_PROPERTY_HOST_COHERENT_BIT)

\* _memUsages of the calls of main: memPropFlags and stagingMemPropFlags
RequestedFlags ==
    {VK_MEMORY_PROPERTY_DEVICE_LOCAL_BIT,
     VK_MEMORY_PROPERTY_HOST_COHERENT_BIT + VK_MEMORY_PROPERTY_HOST_VISIBLE_BIT}

\* memProperties.memoryTypes of a device: memoryTypeCount is its length
MemoryTypes == UNION {[1..n -> PropertyFlags] : n \in 0..MaxTypes}

\* memReq.memoryTypeBits of a buffer on a device of n memory types
MemoryTypeBits(n) == 0..(Pow(2, n) - 1)

\* what memTypeIndex, declared without a value, may hold when it is first read:
\* an index of a memory type or a value beyond them
Indeterminate == 0..MaxTypes

\* the condition of the if of the loop for memory type i
Suitable(b, i) ==
    /\ BitAnd(b.memoryTypeBits, Pow(2, i)) # 0
    /\ BitAnd(b.memoryTypes[i + 1], b.memUsages) = b.memUsages

\* the loop from i on: memTypeIndex is assigned at every memory type that suits,
\* nothing leaves the loop early and nothing in the try block throws
RECURSIVE FindMemoryType(_, _, _)
FindMemoryType(b, i, memTypeIndex) ==
    IF i >= Len(b.memoryTypes) THEN memTypeIndex
    ELSE FindMemoryType(b, i + 1, IF Suitable(b, i) THEN i ELSE memTypeIndex)

\* createBuffer is not called
BufferIdle ==
    [pc |-> "idle", memoryTypes |-> <<>>, memoryTypeBits |-> 0, memUsages |-> 0,
     memTypeIndex |-> 0, allocated |-> {}]

Init ==
    /\ geo = EmptyMesh
    /\ pre = EmptyMesh
    /\ op = NoOp
    /\ calls = 0
    /\ sponge = SpongeIdle
    /\ app = AppendIdle
    /\ image = ImageIdle
    /\ host = HostIdle
    /\ buf = BufferIdle

MayCall == calls < MaxCalls

\* a call that appends is made while the mesh is small
MayGrow == MayCall /\ Len(geo.m_vertices) <= MaxPreVerts

Called(g, o) ==
    /\ geo' = g
    /\ op' = o
    /\ pre' = geo
    /\ calls' = calls + 1
    /\ UNCHANGED <<sponge, app, application>>

CallPlane ==
    /\ MayGrow
    /\ \E mat \in Transforms, w \in Segments, h \in Segments :
        Called(PlaneAdd(geo, mat, w, h),
               [NoOp EXCEPT !.name = "Plane", !.mat = mat, !.w = w, !.h = h])

CallBox ==
    /\ MayGrow
    /\ \E mat \in Transforms, w \in Segments, h \in Segments, d \in Segments :
        Called(BoxAdd(geo, mat, w, h, d),
               [NoOp EXCEPT !.name = "Box", !.mat = mat, !.w = w, !.h = h, !.d = d])

CallSphere ==
    /\ MayGrow
    /\ \E mat \in Transforms, w \in Segments, h \in SphereRows :
        Called(SphereAdd(geo, mat, w, h),
               [NoOp EXCEPT !.name = "Sphere", !.mat = mat, !.w = w, !.h = h])

CallTorus ==
    /\ MayGrow
    /\ \E mat \in UnusedTransforms, w \in Segments, h \in Segments :
        Called(TorusAdd(geo, mat, w, h),
               [NoOp EXCEPT !.name = "Torus", !.mat = mat, !.w = w, !.h = h])

CallSponge ==
    /\ MayGrow
    /\ \E mat \in UnusedTransforms, level \in Levels, prob \in CallProbabilities,
          stream \in CallStreams :
        /\ Deterministic(prob) => stream = NoStream
        /\ SpongeWithin(SpongeStart(stream), prob, 0, level)
        /\ Called(RandomMengerSpongeAdd(geo, mat, 1, 1, 1, level, prob, stream),
                  [NoOp EXCEPT !.name = "Sponge", !.mat = mat, !.w = 1, !.h = 1, !.d = 1,
                               !.level = level, !.prob = prob, !.stream = stream])

CallAppend ==
    /\ MayGrow
    /\ \E src \in SourceMeshes :
        Called(append(geo, src), [NoOp EXCEPT !.name = "append", !.src = src])

CallFlipWinding ==
    /\ MayCall
    /\ Called(flipWinding(geo), [NoOp EXCEPT !.name = "flipWinding"])

Next ==
    \/ CallPlane
    \/ CallBox
    \/ CallSphere
    \/ CallTorus
    \/ CallSponge
    \/ CallAppend
    \/ CallFlipWinding

Spec == Init /\ [][Next]_vars

\* ---- calls with a segment count of 0 -------------------------------------------------
\* a call with a count of 0 is made on a fresh mesh or after calls with positive counts
MayDegenerate == MayGrow /\ (op.name = "none" \/ (op.w > 0 /\ op.h > 0))

CallPlaneDegenerate ==
    /\ MayDegenerate
    /\ \E mat \in Transforms, w \in SegmentsOrNone, h \in SegmentsOrNone :
        /\ w = 0 \/ h = 0
        /\ Called(PlaneAdd(geo, mat, w, h),
                  [NoOp EXCEPT !.name = "Plane", !.mat = mat, !.w = w, !.h = h])

CallBoxDegenerate ==
    /\ MayDegenerate
    /\ \E mat \in Transforms, w \in SegmentsOrNone, h \in SegmentsOrNone,
          d \in SegmentsOrNone :
        /\ w = 0 \/ h = 0 \/ d = 0
        /\ Called(BoxAdd(geo, mat, w, h, d),
                  [NoOp EXCEPT !.name = "Box", !.mat = mat, !.w = w, !.h = h, !.d = d])

CallSphereDegenerate ==
    /\ MayDegenerate
    /\ \E mat \in Transforms, w \in SegmentsOrNone, h \in SphereRowsOrNone :
        /\ w = 0 \/ h = 0
        /\ Called(SphereAdd(geo, mat, w, h),
                  [NoOp EXCEPT !.name = "Sphere", !.mat = mat, !.w = w, !.h = h])

CallTorusDegenerate ==
    /\ MayDegenerate
    /\ \E mat \in UnusedTransforms, w \in SegmentsOrNone, h \in SegmentsOrNone :
        /\ w = 0 \/ h = 0
        /\ Called(TorusAdd(geo, mat, w, h),
                  [NoOp EXCEPT !.name = "Torus", !.mat = mat, !.w = w, !.h = h])

DegenerateNext ==
    \/ CallPlane
    \/ CallPlaneDegenerate
    \/ CallBoxDegenerate
    \/ CallSphereDegenerate
    \/ CallTorusDegenerate

SpecDegenerate == Init /\ [][DegenerateNext]_vars

\* ---- RandomMengerSponge::add, pass by pass ------------------------------------------
\* the call is entered: cubes1 = {cube}, cubes2 = {}, i = 0
SpongeEnter ==
    /\ sponge.pc = "idle"
    /\ \E level \in LevelsOrBelow, prob \in Probabilities, stream \in Streams :
        /\ Deterministic(prob) => stream = NoStream
        /\ sponge' = [SpongeIdle EXCEPT !.pc = "loop", !.previous = <<InitialCube>>,
                                        !.stream = stream, !.level = level, !.prob = prob]
    /\ UNCHANGED <<geo, pre, op, calls, app, application>>

\* one pass of "for(int i = 0; i < level; i++)"
SpongePass ==
    /\ sponge.pc = "loop"
    /\ sponge.i < sponge.level
    /\ Len(sponge.previous) <= MaxCubes
    /\ LET st == SpongeRound(sponge, sponge.prob)
       IN  sponge' = [sponge EXCEPT !.previous = st.previous, !.next = st.next,
                                    !.stream = st.stream, !.i = @ + 1,
                                    !.before = sponge.previous]
    /\ UNCHANGED <<geo, pre, op, calls, app, application>>

\* "i < level" fails
SpongeLoopExit ==
    /\ sponge.pc = "loop"
    /\ sponge.i >= sponge.level
    /\ sponge' = [sponge EXCEPT !.pc = "boxes"]
    /\ UNCHANGED <<geo, pre, op, calls, app, application>>

\* the final loop "for(Cube& c : *previous)": one Box for every cube
SpongeAppendBoxes ==
    /\ sponge.pc = "boxes"
    /\ Len(sponge.previous) <= MaxCubes
    /\ geo' = SpongeBoxes(geo, sponge.previous, 1, Len(sponge.previous))
    /\ pre' = geo
    /\ sponge' = [sponge EXCEPT !.pc = "done"]
    /\ UNCHANGED <<op, calls, app, application>>

SpongeNext ==
    \/ SpongeEnter
    \/ SpongePass
    \/ SpongeLoopExit
    \/ SpongeAppendBoxes

SpecSponge == Init /\ [][SpongeNext]_vars

\* ---- Mesh::append, step by step ------------------------------------------------------
\* the mesh the parameter geo of append refers to
AppendSource == IF app.self THEN geo ELSE app.src

\* the call is entered, with the receiver itself or with another mesh; the three
\* reserve() calls change no element and no size; offset = m_vertices.size()
AppendEnter ==
    /\ app.pc = "idle"
    /\ MayCall
    /\ \E self \in BOOLEAN :
        \E src \in (IF self THEN {EmptyMesh} ELSE SourceMeshes) :
            app' = [pc |-> "vertices", self |-> self, src |-> src, i |-> 0,
                    offset |-> Len(geo.m_vertices),
                    count |-> IF self THEN Len(geo.m_vertices) ELSE Len(src.m_vertices)]
    /\ pre' = geo
    /\ calls' = calls + 1
    /\ UNCHANGED <<geo, op, sponge, application>>

\* one pass of "for(size_t i = 0; i < geo.m_vertices.size(); i++)"
AppendVertex ==
    /\ app.pc = "vertices"
    /\ app.i < Len(AppendSource.m_vertices)
    /\ app.i < MaxPushes
    /\ geo' = [geo EXCEPT !.m_vertices = Append(@, AppendSource.m_vertices[app.i + 1])]
    /\ app' = [app EXCEPT !.i = @ + 1]
    /\ UNCHANGED <<pre, op, calls, sponge, application>>

\* "i < geo.m_vertices.size()" fails
AppendVerticesEnd ==
    /\ app.pc = "vertices"
    /\ app.i >= Len(AppendSource.m_vertices)
    /\ app' = [app EXCEPT !.pc = "triangles", !.i = 0]
    /\ UNCHANGED <<geo, pre, op, calls, sponge, application>>

\* one pass of "for(size_t i = 0; i < geo.m_indicesTriangles.size(); i++)"
AppendTriangle ==
    /\ app.pc = "triangles"
    /\ app.i < Len(AppendSource.m_indicesTriangles)
    /\ LET t == AppendSource.m_indicesTriangles[app.i + 1]
       IN  geo' = [geo EXCEPT !.m_indicesTriangles =
                      Append(@, <<t[1] + app.offset, t[2] + app.offset, t[3] + app.offset>>)]
    /\ app' = [app EXCEPT !.i = @ + 1]
    /\ UNCHANGED <<pre, op, calls, sponge, application>>

AppendTrianglesEnd ==
    /\ app.pc = "triangles"
    /\ app.i >= Len(AppendSource.m_indicesTriangles)
    /\ app' = [app EXCEPT !.pc = "outline", !.i = 0]
    /\ UNCHANGED <<geo, pre, op, calls, sponge, application>>

\* one pass of "for(size_t i = 0; i < geo.m_indicesOutline.size(); i++)"
AppendOutline ==
    /\ app.pc = "outline"
    /\ app.i < Len(AppendSource.m_indicesOutline)
    /\ LET t == AppendSource.m_indicesOutline[app.i + 1]
       IN  geo' = [geo EXCEPT !.m_indicesOutline =
                      Append(@, <<t[1] + app.offset, t[2] + app.offset>>)]
    /\ app' = [app EXCEPT !.i = @ + 1]
    /\ UNCHANGED <<pre, op, calls, sponge, application>>

\* the last loop ends and the call returns
AppendReturn ==
    /\ app.pc = "outline"
    /\ app.i >= Len(AppendSource.m_indicesOutline)
    /\ app' = [app EXCEPT !.pc = "idle", !.i = 0]
    /\ UNCHANGED <<geo, pre, op, calls, sponge, application>>

AppendNext ==
    \/ AppendEnter
    \/ AppendVertex
    \/ AppendVerticesEnd
    \/ AppendTriangle
    \/ AppendTrianglesEnd
    \/ AppendOutline
    \/ AppendReturn

SpecAppend == Init /\ [][AppendNext]_vars

\* ---- the dispatch, invocation by invocation ------------------------------------------
\* vkCmdDispatch of (img_width + workgroup_width - 1) / workgroup_width by
\* (img_height + workgroup_height - 1) / workgroup_height groups
vkCmdDispatch ==
    /\ image.pc = "idle"
    /\ \E size \in DispatchSizes : image' = DispatchStart(size)
    /\ UNCHANGED <<geo, pre, op, calls, sponge, app, host, buf>>

\* the invocations run in any order
Invocation ==
    /\ image.pc = "running"
    /\ \E id \in image.pending : image' = InvocationRun(image, id)
    /\ UNCHANGED <<geo, pre, op, calls, sponge, app, host, buf>>

DispatchComplete ==
    /\ image.pc = "running"
    /\ image.pending = {}
    /\ image' = [image EXCEPT !.pc = "done"]
    /\ UNCHANGED <<geo, pre, op, calls, sponge, app, host, buf>>

DispatchNext ==
    \/ vkCmdDispatch
    \/ Invocation
    \/ DispatchComplete

SpecDispatch == Init /\ [][DispatchNext]_vars

\* ---- the application: the host, statement by statement, and the queue --------------
HostReady(kinds) ==
    /\ ~host.waiting
    /\ host.pc < Len(mainProgram)
    /\ HostAt(host).call \in kinds

\* the variables a statement of the host leaves alone
HostOnly == UNCHANGED <<geo, pre, op, calls, sponge, app, image, buf>>

HostCreate ==
    /\ HostReady(Creates)
    /\ LET stmt == HostAt(host)
       IN  host' = [HostDone(host, stmt, {}) EXCEPT !.objects[stmt.target] = "alive",
                                                    !.refs[stmt.target] = stmt.uses]
    /\ HostOnly

HostBind ==
    /\ HostReady(Binds)
    /\ LET stmt == HostAt(host)
       IN  host' = [HostDone(host, stmt, {}) EXCEPT !.refs[stmt.target] = @ \cup stmt.uses]
    /\ HostOnly

vkAllocateCommandBuffers ==
    /\ HostReady({"vkAllocateCommandBuffers"})
    /\ LET stmt == HostAt(host)
       IN  host' = [HostDone(host, stmt,
                             IF host.cmd[stmt.target].state = "none"
                             THEN {} ELSE {<<"allocated twice", stmt.target>>})
                       EXCEPT !.cmd[stmt.target].state = "initial"]
    /\ HostOnly

vkBeginCommandBuffer ==
    /\ HostReady({"vkBeginCommandBuffer"})
    /\ LET stmt == HostAt(host)
       IN  host' = [HostDone(host, stmt,
                             IF host.cmd[stmt.target].state = "initial"
                             THEN {} ELSE {<<"begun out of order", stmt.target>>})
                       EXCEPT !.cmd[stmt.target].state = "recording"]
    /\ HostOnly

HostRecord ==
    /\ HostReady(Records)
    /\ LET stmt == HostAt(host)
       IN  host' = [HostDone(host, stmt,
                             IF host.cmd[stmt.target].state = "recording"
                             THEN {} ELSE {<<"recorded out of order", stmt.target>>})
                       EXCEPT !.cmd[stmt.target].commands = Append(@, stmt)]
    /\ HostOnly

vkEndCommandBuffer ==
    /\ HostReady({"vkEndCommandBuffer"})
    /\ LET stmt == HostAt(host)
       IN  host' = [HostDone(host, stmt,
                             IF host.cmd[stmt.target].state = "recording"
                             THEN {} ELSE {<<"ended out of order", stmt.target>>})
                       EXCEPT !.cmd[stmt.target].state = "executable"]
    /\ HostOnly

\* the commands of the command buffer are handed to the queue
vkQueueSubmit ==
    /\ HostReady({"vkQueueSubmit"})
    /\ LET stmt == HostAt(host)
           c == CHOOSE b \in stmt.uses : TRUE
           work == host.cmd[c].commands
       IN  host' = [HostDone(host, stmt,
                             IF host.cmd[c].state = "executable"
                             THEN {} ELSE {<<"submitted out of order", c>>})
                       EXCEPT !.cmd[c].state = "pending",
                              !.queue = @ \o [k \in DOMAIN work |->
                                                 [cmd |-> c, call |-> work[k].call,
                                                  status |-> "queued"]]]
    /\ HostOnly

\* the host enters vkQueueWaitIdle
vkQueueWaitIdle ==
    /\ HostReady({"vkQueueWaitIdle"})
    /\ host' = [host EXCEPT !.waiting = TRUE]
    /\ HostOnly

\* vkQueueWaitIdle returns once the queue has done all it was handed
vkQueueWaitIdleReturns ==
    /\ host.waiting
    /\ \A k \in DOMAIN host.queue : host.queue[k].status = "done"
    /\ LET stmt == HostAt(host)
           retired == Pending(host)
       IN  host' = [host EXCEPT
                       !.waiting = FALSE,
                       !.pc = @ + 1,
                       !.queue = <<>>,
                       !.cmd = [c \in CommandBuffers |->
                                   IF c \in retired THEN [@[c] EXCEPT !.state = "invalid"]
                                                    ELSE @[c]],
                       !.log = Append(@, [call |-> stmt.call, target |-> stmt.target,
                                          uses |-> stmt.uses, retired |-> retired])]
    /\ HostOnly

vkFreeCommandBuffers ==
    /\ HostReady({"vkFreeCommandBuffers"})
    /\ LET stmt == HostAt(host)
       IN  host' = [HostDone(host, stmt,
                             IF InUse(host, stmt.target)
                             THEN {<<"freed while pending", stmt.target>>} ELSE {})
                       EXCEPT !.cmd[stmt.target].state = "freed"]
    /\ HostOnly

\* the host maps, writes, reads or unmaps memory
HostAccess ==
    /\ HostReady(HostWrites \cup HostReads)
    /\ LET stmt == HostAt(host)
       IN  host' = HostDone(host, stmt,
                            IF InUse(host, stmt.target)
                            THEN {<<"accessed while pending", stmt.target>>} ELSE {})
    /\ HostOnly

HostDestroy ==
    /\ HostReady(Destroys)
    /\ LET stmt == HostAt(host)
       IN  host' = [HostDone(host, stmt,
                             IF InUse(host, stmt.target)
                             THEN {<<"destroyed while pending", stmt.target>>} ELSE {})
                       EXCEPT !.objects[stmt.target] = "destroyed"]
    /\ HostOnly

\* the commands of the queue start in the order of their submission; a pipeline
\* barrier starts after the commands before it are done and holds back those after it
QueueMayStart(k) ==
    /\ host.queue[k].status = "queued"
    /\ \A j \in 1..(k - 1) :
          /\ host.queue[j].status # "queued"
          /\ (host.queue[k].call = "vkCmdPipelineBarrier"
                \/ host.queue[j].call = "vkCmdPipelineBarrier") => host.queue[j].status = "done"

\* what the queue finds of a command buffer whose objects are gone
QueueHazard(k) ==
    LET c == host.queue[k].cmd
    IN  IF host.cmd[c].state = "pending"
           /\ \A x \in UsedBy(host, c) \cap Objects : host.objects[x] = "alive"
        THEN {} ELSE {<<"run without its objects", c>>}

QueueStart ==
    /\ \E k \in DOMAIN host.queue :
          /\ QueueMayStart(k)
          /\ host.queue[k].call # "vkCmdDispatch"
          /\ host' = [host EXCEPT !.queue[k].status = "running",
                                  !.hazards = @ \cup QueueHazard(k)]
    /\ HostOnly

\* the dispatch starts: its invocations are the ones of Invocation
QueueStartDispatch ==
    /\ image.pc = "idle"
    /\ \E k \in DOMAIN host.queue :
          /\ QueueMayStart(k)
          /\ host.queue[k].call = "vkCmdDispatch"
          /\ host' = [host EXCEPT !.queue[k].status = "running",
                                  !.hazards = @ \cup QueueHazard(k)]
    /\ \E size \in DispatchSizes : image' = DispatchStart(size)
    /\ UNCHANGED <<geo, pre, op, calls, sponge, app, buf>>

QueueFinish ==
    /\ \E k \in DOMAIN host.queue :
          /\ host.queue[k].status = "running"
          /\ host.queue[k].call # "vkCmdDispatch"
          /\ host' = [host EXCEPT !.queue[k].status = "done",
                                  !.hazards = @ \cup QueueHazard(k)]
    /\ HostOnly

\* the dispatch is done when every invocation has run
QueueFinishDispatch ==
    /\ image.pc = "running"
    /\ image.pending = {}
    /\ \E k \in DOMAIN host.queue :
          /\ host.queue[k].status = "running"
          /\ host.queue[k].call = "vkCmdDispatch"
          /\ host' = [host EXCEPT !.queue[k].status = "done",
                                  !.hazards = @ \cup QueueHazard(k)]
    /\ image' = [image EXCEPT !.pc = "done"]
    /\ UNCHANGED <<geo, pre, op, calls, sponge, app, buf>>

ApplicationNext ==
    \/ HostCreate
    \/ HostBind
    \/ vkAllocateCommandBuffers
    \/ vkBeginCommandBuffer
    \/ HostRecord
    \/ vkEndCommandBuffer
    \/ vkQueueSubmit
    \/ vkQueueWaitIdle
    \/ vkQueueWaitIdleReturns
    \/ vkFreeCommandBuffers
    \/ HostAccess
    \/ HostDestroy
    \/ QueueStart
    \/ QueueStartDispatch
    \/ QueueFinish
    \/ QueueFinishDispatch
    \/ Invocation

SpecApplication == Init /\ [][ApplicationNext]_vars

\* ---- NRC::createBuffer, from its call to vkAllocateMemory ----------------------------
\* the call: vkCreateBuffer, vkGetBufferMemoryRequirements and
\* vkGetPhysicalDeviceMemoryProperties give the memory types and the bits of the
\* buffer; memTypeIndex is declared and holds whatever the stack held
createBufferCalled ==
    /\ buf.pc = "idle"
    /\ \E types \in MemoryTypes, usages \in RequestedFlags, junk \in Indeterminate :
          \E bits \in MemoryTypeBits(Len(types)) :
              buf' = [pc |-> "search", memoryTypes |-> types, memoryTypeBits |-> bits,
                      memUsages |-> usages, memTypeIndex |-> junk, allocated |-> {}]
    /\ UNCHANGED <<geo, pre, op, calls, sponge, app, image, host>>

\* the try block: the loop over the memory types; the catch is never entered
createBufferSearches ==
    /\ buf.pc = "search"
    /\ buf' = [buf EXCEPT !.pc = "allocate",
                          !.memTypeIndex = FindMemoryType(buf, 0, buf.memTypeIndex)]
    /\ UNCHANGED <<geo, pre, op, calls, sponge, app, image, host>>

\* vkAllocateMemory with memAllocateInfo.memoryTypeIndex = memTypeIndex, then
\* vkBindBufferMemory
createBufferAllocates ==
    /\ buf.pc = "allocate"
    /\ buf' = [buf EXCEPT !.pc = "returned", !.allocated = {buf.memTypeIndex}]
    /\ UNCHANGED <<geo, pre, op, calls, sponge, app, image, host>>

CreateBufferNext ==
    \/ createBufferCalled
    \/ createBufferSearches
    \/ createBufferAllocates

SpecCreateBuffer == Init /\ [][CreateBufferNext]_vars

\* ---- properties -------------------------------------------------------------------
\* what the last call appended
AddedVertices == Len(geo.m_vertices) - Len(pre.m_vertices)

AddedTriangles == Len(geo.m_indicesTriangles) - Len(pre.m_indicesTriangles)

AddedOutline == Len(geo.m_indicesOutline) - Len(pre.m_indicesOutline)

\* C1: after any sequence of add calls with segment counts >= 1, append and
\* flipWinding, every component of every triangle index and of every outline index
\* is less than the number of vertices of the mesh.
C1_IndicesBelowVertexCount ==
    /\ \A i \in 1..Len(geo.m_indicesTriangles) : \A k \in 1..3 :
          geo.m_indicesTriangles[i][k] < Len(geo.m_vertices)
    /\ \A i \in 1..Len(geo.m_indicesOutline) : \A k \in 1..2 :
          geo.m_indicesOutline[i][k] < Len(geo.m_vertices)

\* C2: Plane::add with w, h >= 1 appends exactly (w+1)*(h+1) vertices and exactly
\* 2*w*h triangles.
C2_PlaneCounts ==
    op.name = "Plane" =>
        /\ AddedVertices = (op.w + 1) * (op.h + 1)
        /\ AddedTriangles = 2 * op.w * op.h

\* a Plane::add call with w # h on a mesh that already holds vertices
C2_Witness ==
    /\ op.name = "Plane"
    /\ op.w = 2
    /\ op.h = 1
    /\ Len(pre.m_vertices) > 0

\* C3: Sphere::add with w, h >= 1 appends exactly (w+1)*(h+1) vertices and exactly
\* 2*w*h - 2*w triangles, which is no triangle when h = 1.
C3_SphereCounts ==
    op.name = "Sphere" =>
        /\ AddedVertices = (op.w + 1) * (op.h + 1)
        /\ AddedTriangles = 2 * op.w * op.h - 2 * op.w
        /\ op.h = 1 => AddedTriangles = 0

\* a Sphere::add call with more than one row of quads, so that pole rows and their
\* single triangles are there
C3_Witness ==
    /\ op.name = "Sphere"
    /\ op.h = 2
    /\ op.w = 2
    /\ AddedTriangles = 4

\* C4: Torus::add with w, h >= 1, w # h included, appends exactly (w+1)*(h+1) vertices
\* and exactly 2*w*h triangles.
C4_TorusCounts ==
    op.name = "Torus" =>
        /\ AddedVertices = (op.w + 1) * (op.h + 1)
        /\ AddedTriangles = 2 * op.w * op.h

\* a Torus::add call with w # h
C4_Witness ==
    /\ op.name = "Torus"
    /\ op.w = 2
    /\ op.h = 1

\* C5: Box::add with w, h, d >= 1 appends the sum of its six unwelded Plane faces:
\* 2*[(w+1)*(h+1) + (d+1)*(h+1) + (w+1)*(d+1)] vertices and 4*(w*h + d*h + w*d)
\* triangles, which is 6*(w+1)*(h+1) vertices when w = h = d.
C5_BoxCounts ==
    op.name = "Box" =>
        /\ AddedVertices =
              2 * ((op.w + 1) * (op.h + 1) + (op.d + 1) * (op.h + 1) + (op.w + 1) * (op.d + 1))
        /\ AddedTriangles = 4 * (op.w * op.h + op.d * op.h + op.w * op.d)
        /\ (op.w = op.h /\ op.h = op.d) => AddedVertices = 6 * (op.w + 1) * (op.h + 1)

\* a Box::add call whose three pairs of faces all differ in their segment counts' use
C5_Witness ==
    /\ op.name = "Box"
    /\ op.w = 1
    /\ op.h = 2
    /\ op.d = 2
    /\ AddedVertices = 42

\* C6: r.append(s), s another mesh than r, makes r's vertex count |r| + |s|, copies
\* s's vertices in order after r's, and appends each triangle and outline index of s
\* with every component increased by r's vertex count before the call; when r is a
\* fresh copy of s the vertex count becomes 2 * |s.vertices|.
C6_AppendOffsets ==
    op.name = "append" =>
        LET offset == Len(pre.m_vertices)
            nt == Len(pre.m_indicesTriangles)
            no == Len(pre.m_indicesOutline)
        IN  /\ Len(geo.m_vertices) = offset + Len(op.src.m_vertices)
            /\ \A i \in 1..offset : geo.m_vertices[i] = pre.m_vertices[i]
            /\ \A i \in 1..Len(op.src.m_vertices) :
                  geo.m_vertices[offset + i] = op.src.m_vertices[i]
            /\ AddedTriangles = Len(op.src.m_indicesTriangles)
            /\ \A i \in 1..Len(op.src.m_indicesTriangles) : \A k \in 1..3 :
                  geo.m_indicesTriangles[nt + i][k] = op.src.m_indicesTriangles[i][k] + offset
            /\ AddedOutline = Len(op.src.m_indicesOutline)
            /\ \A i \in 1..Len(op.src.m_indicesOutline) : \A k \in 1..2 :
                  geo.m_indicesOutline[no + i][k] = op.src.m_indicesOutline[i][k] + offset
            /\ pre = op.src => Len(geo.m_vertices) = 2 * Len(op.src.m_vertices)

\* an append to a mesh that is a copy of the appended mesh and holds triangles
C6_Witness ==
    /\ op.name = "append"
    /\ pre = op.src
    /\ Len(pre.m_vertices) > 0
    /\ Len(op.src.m_indicesTriangles) > 0

\* C7: flipWinding applied twice restores the triangle index sequence: same triangles,
\* same order, same component order.
C7_FlipTwiceIsIdentity ==
    op.name = "flipWinding" =>
        flipWinding(geo).m_indicesTriangles = pre.m_indicesTriangles

\* flipWinding has been applied to a mesh whose triangles it changed
C7_Witness ==
    /\ op.name = "flipWinding"
    /\ Len(pre.m_indicesTriangles) > 0
    /\ geo.m_indicesTriangles # pre.m_indicesTriangles

\* the grid positions (x, y, z) of which at most one coordinate is 1
KeptGrid == {g \in (0..2) \X (0..2) \X (0..2) : Cardinality({k \in 1..3 : g[k] = 1}) <= 1}

\* the sub-cube of parent at grid position g, of a third of its size
ThirdCube(parent, g) ==
    LET third == parent.m_size \div 3
    IN  [m_topLeftFront |-> <<parent.m_topLeftFront[1] + g[1] * third,
                              parent.m_topLeftFront[2] + g[2] * third,
                              parent.m_topLeftFront[3] + g[3] * third>>,
         m_size |-> third]

\* C8: in deterministic mode (probability < 0) one split of a cube keeps exactly 20 of
\* the 27 sub-cubes: the sub-cube at (x, y, z) is kept if and only if at most one of
\* x, y, z is 1, and it has a third of the parent's size and the origin
\* parent.origin + (x, y, z) * size / 3.
C8_DeterministicSplitKeeps20 ==
    (sponge.pc # "idle" /\ sponge.i > 0 /\ Deterministic(sponge.prob)) =>
        /\ Cardinality(KeptGrid) = 20
        /\ Len(sponge.previous) = 20 * Len(sponge.before)
        /\ \A j \in 1..Len(sponge.before) :
              /\ 3 * (sponge.before[j].m_size \div 3) = sponge.before[j].m_size
              /\ {sponge.previous[20 * (j - 1) + k] : k \in 1..20}
                    = {ThirdCube(sponge.before[j], g) : g \in KeptGrid}

\* the second deterministic pass has split the 20 cubes of the first
C8_Witness ==
    /\ sponge.pc = "loop"
    /\ sponge.i = 2
    /\ Deterministic(sponge.prob)
    /\ Len(sponge.before) = 20
    /\ Len(sponge.previous) = 400

\* C9: RandomMengerSponge::add with level = 0, for any probability, appends exactly
\* the geometry of one Box::add(..., 1, 1, 1) call: 24 vertices, 12 triangles and 24
\* outline segments.
C9_LevelZeroIsOneBox ==
    (op.name = "Sponge" /\ op.level = 0) =>
        /\ AddedVertices = 24
        /\ AddedTriangles = 12
        /\ AddedOutline = 24
        /\ geo = BoxAdd(pre, SpongeBoxMatrix(InitialCube), 1, 1, 1)

\* a call with level 0 and a probability that is not the deterministic default, on a
\* mesh that holds vertices
C9_Witness ==
    /\ op.name = "Sponge"
    /\ op.level = 0
    /\ op.prob = <<0, 1>>
    /\ Len(pre.m_vertices) > 0
    /\ AddedVertices = 24

\* the vertex of grid point (x, y) of a w * h plane under the identity
PlaneGridVertex(w, h, x, y) ==
    [position |-> <<(2 * x * Unit) \div w - Unit, (2 * y * Unit) \div h - Unit, 0, Unit>>,
     normal   |-> <<0, 0, Unit, 0>>,
     texcoord |-> <<(x * Unit) \div w, (y * Unit) \div h, 0, 0>>]

\* the positions of the two ends of the outline segment number i of the mesh
OutlineEnds(i) ==
    {geo.m_vertices[geo.m_indicesOutline[i][1] + 1].position,
     geo.m_vertices[geo.m_indicesOutline[i][2] + 1].position}

\* C10: Plane::add with the identity transform appends the vertex of grid point (x, y),
\* 0 <= x <= w, 0 <= y <= h, at index offset + y*(w+1) + x with position
\* (2x/w - 1, 2y/h - 1, 0), normal (0, 0, 1) and texcoord (x/w, y/h); for w = h = 1 these
\* are 4 vertices at (+-1, +-1, 0), 2 triangles and 4 outline edges that form the border
\* of the square.
C10_PlaneIdentityVertices ==
    (op.name = "Plane" /\ op.mat = Identity) =>
        LET offset == Len(pre.m_vertices)
            no == Len(pre.m_indicesOutline)
        IN  /\ \A x \in 0..op.w : \A y \in 0..op.h :
                  geo.m_vertices[offset + y * (op.w + 1) + x + 1]
                      = PlaneGridVertex(op.w, op.h, x, y)
            /\ (op.w = 1 /\ op.h = 1) =>
                  /\ AddedVertices = 4
                  /\ AddedTriangles = 2
                  /\ AddedOutline = 4
                  /\ {geo.m_vertices[offset + i].position : i \in 1..4}
                        = {<<sx * Unit, sy * Unit, 0, Unit>> : sx \in {0 - 1, 1}, sy \in {0 - 1, 1}}
                  /\ Cardinality({OutlineEnds(no + i) : i \in 1..4}) = 4
                  /\ \A i \in 1..4 : \E a, b \in OutlineEnds(no + i) :
                        /\ \/ (a[1] # b[1] /\ a[2] = b[2])
                           \/ (a[1] = b[1] /\ a[2] # b[2])
                        /\ Abs(a[1]) = Unit /\ Abs(a[2]) = Unit
                        /\ Abs(b[1]) = Unit /\ Abs(b[2]) = Unit

\* Plane::add(geo, identity, 1, 1) on a mesh that holds vertices
C10_Witness ==
    /\ op.name = "Plane"
    /\ op.mat = Identity
    /\ op.w = 1
    /\ op.h = 1
    /\ Len(pre.m_vertices) > 0
    /\ AddedVertices = 4

\* the grid point (x, y) of the vertex with index i of the last call, a Plane::add
PlaneGridPoint(i) ==
    <<(i - Len(pre.m_vertices)) % (op.w + 1), (i - Len(pre.m_vertices)) \div (op.w + 1)>>

\* the segments of length 1 on the four border lines of the w * h grid
BoundaryUnitSegments(w, h) ==
    {{<<x, y>>, <<x, y + 1>>} : x \in {0, w}, y \in 0..(h - 1)}
        \cup {{<<x, y>>, <<x + 1, y>>} : x \in 0..(w - 1), y \in {0, h}}

\* the outline segment number k appended by the last call, as its two grid points
PlaneOutlineSegment(k) ==
    {PlaneGridPoint(geo.m_indicesOutline[Len(pre.m_indicesOutline) + k][1]),
     PlaneGridPoint(geo.m_indicesOutline[Len(pre.m_indicesOutline) + k][2])}

\* C11: Plane::add with w, h >= 1 appends exactly 2*w + 2*h outline segments; each
\* joins two grid-adjacent vertices on the border of the (w+1) x (h+1) grid, every
\* border segment of length 1 is covered exactly once, and no outline segment lies on
\* an inner grid line.
C11_PlaneOutlineIsBorder ==
    op.name = "Plane" =>
        /\ AddedOutline = 2 * op.w + 2 * op.h
        /\ \A k \in 1..AddedOutline :
              /\ \A e \in 1..2 :
                    LET i == geo.m_indicesOutline[Len(pre.m_indicesOutline) + k][e]
                    IN  /\ i >= Len(pre.m_vertices)
                        /\ i < Len(geo.m_vertices)
              /\ PlaneOutlineSegment(k) \in BoundaryUnitSegments(op.w, op.h)
        /\ \A s \in BoundaryUnitSegments(op.w, op.h) :
              Cardinality({k \in 1..AddedOutline : PlaneOutlineSegment(k) = s}) = 1

\* a Plane::add call whose grid has inner lines in both directions, on a mesh that
\* holds vertices
C11_Witness ==
    /\ op.name = "Plane"
    /\ op.w = 2
    /\ op.h = 2
    /\ Len(pre.m_vertices) > 0
    /\ AddedOutline = 8

\* the triangle number k appended by the last call, a Plane::add, as grid points
PlaneTriangleCorners(k) ==
    [e \in 1..3 |-> PlaneGridPoint(geo.m_indicesTriangles[Len(pre.m_indicesTriangles) + k][e])]

\* twice the signed area of the triangle t of grid points
SignedArea2(t) ==
    (t[2][1] - t[1][1]) * (t[3][2] - t[1][2]) - (t[2][2] - t[1][2]) * (t[3][1] - t[1][1])

\* the four corners of grid cell (x, y)
CellCorners(x, y) == {<<x, y>>, <<x + 1, y>>, <<x, y + 1>>, <<x + 1, y + 1>>}

\* the triangles appended by the last call whose corners are all corners of cell (x, y)
TrianglesOfCell(x, y) ==
    {k \in 1..AddedTriangles :
        /\ \A e \in 1..3 :
              LET i == geo.m_indicesTriangles[Len(pre.m_indicesTriangles) + k][e]
              IN  i >= Len(pre.m_vertices) /\ i < Len(geo.m_vertices)
        /\ \A e \in 1..3 : PlaneTriangleCorners(k)[e] \in CellCorners(x, y)}

\* C12: for every grid cell (x, y), 0 <= x < w, 0 <= y < h, Plane::add appends exactly
\* two triangles; each has three distinct corners of the cell, both contain the
\* diagonal (x, y)-(x+1, y+1), together they use all four corners, and each has a
\* positive signed area in grid coordinates (counter-clockwise seen from +Z).
C12_PlaneCellTriangles ==
    op.name = "Plane" =>
        \A x \in 0..(op.w - 1) : \A y \in 0..(op.h - 1) :
            /\ Cardinality(TrianglesOfCell(x, y)) = 2
            /\ \A k \in TrianglesOfCell(x, y) :
                  LET t == PlaneTriangleCorners(k)
                  IN  /\ Cardinality({t[1], t[2], t[3]}) = 3
                      /\ {<<x, y>>, <<x + 1, y + 1>>} \subseteq {t[1], t[2], t[3]}
                      /\ SignedArea2(t) > 0
            /\ UNION {{PlaneTriangleCorners(k)[e] : e \in 1..3} : k \in TrianglesOfCell(x, y)}
                  = CellCorners(x, y)

\* a Plane::add call with several cells in each direction, on a mesh that holds
\* vertices and under a matrix that is not the identity
C12_Witness ==
    /\ op.name = "Plane"
    /\ op.w = 2
    /\ op.h = 2
    /\ op.mat # Identity
    /\ Len(pre.m_vertices) > 0
    /\ AddedTriangles = 8

\* the latitude row of the vertex with index i of the last call, a Sphere::add
SphereRow(i) == (i - Len(pre.m_vertices)) \div (op.w + 1)

\* the triangle number k appended by the last call
AddedTriangle(k) == geo.m_indicesTriangles[Len(pre.m_indicesTriangles) + k]

\* how many of the three vertices of appended triangle k lie in latitude row r
SphereInRow(k, r) == Cardinality({e \in 1..3 : SphereRow(AddedTriangle(k)[e]) = r})

\* the indices of the four corners of the quad (z, xy) of the last call
SphereQuadCorners(z, xy) ==
    {Len(pre.m_vertices) + (z + dz) * (op.w + 1) + xy + dxy : dz \in {0, 1}, dxy \in {0, 1}}

\* the triangles appended by the last call with all corners in the quad (z, xy)
SphereQuadTriangles(z, xy) ==
    {k \in 1..AddedTriangles : \A e \in 1..3 : AddedTriangle(k)[e] \in SphereQuadCorners(z, xy)}

\* C13: no triangle appended by Sphere::add has two of its vertices in the same pole
\* ring (latitude row 0 or latitude row h): a quad of row 0 gets only the triangle with
\* one vertex in row 0, a quad of the last row only the triangle with one vertex in
\* row h, and every other quad gets both triangles.
C13_SphereNoPoleTriangles ==
    op.name = "Sphere" =>
        /\ \A k \in 1..AddedTriangles :
              /\ SphereInRow(k, 0) <= 1
              /\ SphereInRow(k, op.h) <= 1
              /\ \E z \in 0..(op.h - 1), xy \in 0..(op.w - 1) : k \in SphereQuadTriangles(z, xy)
        /\ \A z \in 0..(op.h - 1), xy \in 0..(op.w - 1) :
              LET tris == SphereQuadTriangles(z, xy)
              IN  IF op.h = 1 THEN tris = {}
                  ELSE IF z = 0
                       THEN Cardinality(tris) = 1 /\ \A k \in tris : SphereInRow(k, 0) = 1
                  ELSE IF z = op.h - 1
                       THEN Cardinality(tris) = 1 /\ \A k \in tris : SphereInRow(k, op.h) = 1
                  ELSE Cardinality(tris) = 2

\* a Sphere::add call with a row of quads between the two pole rows, on a mesh that
\* holds vertices
C13_Witness ==
    /\ op.name = "Sphere"
    /\ op.h = 3
    /\ op.w = 2
    /\ Len(pre.m_vertices) > 0
    /\ Cardinality(SphereQuadTriangles(1, 0)) = 2
    /\ Cardinality(SphereQuadTriangles(0, 0)) = 1

\* the calls that generate a primitive
Generators == {"Plane", "Box", "Sphere", "Torus", "Sponge"}

\* the translation among the matrices of the model
Translation == Translate(<<Unit, 2 * Unit, 3 * Unit>>)

\* the mesh the call o makes of mesh g when its matrix argument is mat
AddWith(o, g, mat) ==
    CASE o.name = "Plane" -> PlaneAdd(g, mat, o.w, o.h)
      [] o.name = "Box" -> BoxAdd(g, mat, o.w, o.h, o.d)
      [] o.name = "Sphere" -> SphereAdd(g, mat, o.w, o.h)
      [] o.name = "Torus" -> TorusAdd(g, mat, o.w, o.h)
      [] o.name = "Sponge" ->
            RandomMengerSpongeAdd(g, mat, o.w, o.h, o.d, o.level, o.prob, o.stream)

\* C14: every generator (Plane, Box, Sphere, Torus, RandomMengerSponge) applies the
\* matrix of its caller to every vertex it appends: the call with a translation and
\* the same call with the identity append different vertex positions.
C14_TransformApplied ==
    (op.name \in Generators /\ op.mat = Translation /\ AddedVertices > 0) =>
        LET plain == AddWith(op, pre, Identity)
        IN  \A k \in (Len(pre.m_vertices) + 1)..Len(geo.m_vertices) :
                geo.m_vertices[k].position # plain.m_vertices[k].position

\* C15: a generator called on a mesh that already holds n > 0 vertices appends only
\* triangle and outline indices >= n: the indices a call appends refer to the
\* vertices of that call.
C15_IndicesReferOwnVertices ==
    (op.name \in Generators /\ Len(pre.m_vertices) > 0) =>
        /\ \A k \in (Len(pre.m_indicesTriangles) + 1)..Len(geo.m_indicesTriangles) :
              \A e \in 1..3 : geo.m_indicesTriangles[k][e] >= Len(pre.m_vertices)
        /\ \A k \in (Len(pre.m_indicesOutline) + 1)..Len(geo.m_indicesOutline) :
              \A e \in 1..2 : geo.m_indicesOutline[k][e] >= Len(pre.m_vertices)

\* the least and the greatest element of a set of integers
MinOf(S) == CHOOSE a \in S : \A b \in S : a <= b

MaxOf(S) == CHOOSE a \in S : \A b \in S : a >= b

\* coordinate number axis of the 24 vertices the last call, a sponge, appended for
\* its cube number j
SpongeBoxCoordinates(j, axis) ==
    {geo.m_vertices[Len(pre.m_vertices) + 24 * (j - 1) + k].position[axis] : k \in 1..24}

\* C16: for every cube {origin o, size s} of the working set at the end of
\* RandomMengerSponge::add, the Box appended for it spans the cube: on each axis its
\* vertex positions have the minimum o and the maximum o + s.
C16_BoxSpansCube ==
    op.name = "Sponge" =>
        LET cubes == SpongeCubes(op.level, op.prob, op.stream)
        IN  /\ AddedVertices = 24 * Len(cubes)
            /\ \A j \in 1..Len(cubes) : \A axis \in 1..3 :
                  /\ MinOf(SpongeBoxCoordinates(j, axis)) = cubes[j].m_topLeftFront[axis]
                  /\ MaxOf(SpongeBoxCoordinates(j, axis))
                        = cubes[j].m_topLeftFront[axis] + cubes[j].m_size

\* all 27 grid positions
WholeGrid == (0..2) \X (0..2) \X (0..2)

\* the draws of rand() made by i passes that keep every sub-cube: 27 for each of the
\* 1 + 27 + ... + 27^(i-1) cubes split
DrawsOfFullPasses(i) == 27 * ((Pow(27, i) - 1) \div 26)

\* C17: in stochastic mode with probability 1 every split makes one draw of rand()
\* for each of the 27 sub-cubes and keeps all 27, the centre and the face centres
\* included, so that RandomMengerSponge::add appends exactly 27^level boxes whatever
\* rand() returns.
C17_ProbabilityOneKeepsAll ==
    (sponge.pc # "idle" /\ sponge.prob = <<1, 1>>) =>
        /\ Len(sponge.previous) = Pow(27, sponge.i)
        /\ sponge.stream.used = DrawsOfFullPasses(sponge.i)
        /\ sponge.i > 0 =>
              /\ Len(sponge.previous) = 27 * Len(sponge.before)
              /\ \A j \in 1..Len(sponge.before) :
                    {sponge.previous[27 * (j - 1) + k] : k \in 1..27}
                        = {ThirdCube(sponge.before[j], g) : g \in WholeGrid}
        /\ sponge.pc \in {"boxes", "done"} => Len(sponge.previous) = Pow(27, sponge.level)
        /\ sponge.pc = "done" =>
              /\ AddedVertices = 24 * Pow(27, sponge.level)
              /\ AddedTriangles = 12 * Pow(27, sponge.level)

\* a call with probability 1 and level 1 has appended its boxes while rand() returned
\* RAND_MAX every time
C17_Witness ==
    /\ sponge.pc = "done"
    /\ sponge.prob = <<1, 1>>
    /\ sponge.level = 1
    /\ sponge.stream.seed = RandMax
    /\ sponge.stream.stride = 0
    /\ sponge.stream.used = 27
    /\ AddedVertices = 648

\* C18: in stochastic mode with probability 0 and level >= 1 no sub-cube survives a
\* split, whatever rand() returns, so that RandomMengerSponge::add leaves the mesh
\* unchanged.
C18_ProbabilityZeroKeepsNone ==
    (sponge.pc # "idle" /\ sponge.prob = <<0, 1>> /\ sponge.level >= 1) =>
        /\ sponge.i > 0 => sponge.previous = <<>>
        /\ sponge.pc = "done" => geo = pre

\* sequence a is the beginning of sequence b
IsPrefix(a, b) == Len(a) <= Len(b) /\ \A i \in 1..Len(a) : b[i] = a[i]

\* C19: every generator call and every append only appends to the mesh: the vertices,
\* the triangle indices and the outline indices of before the call are still there
\* afterwards, unchanged and at the same places, as the beginning of the three
\* sequences.
C19_AppendOnly ==
    op.name \in Generators \cup {"append"} =>
        /\ IsPrefix(pre.m_vertices, geo.m_vertices)
        /\ IsPrefix(pre.m_indicesTriangles, geo.m_indicesTriangles)
        /\ IsPrefix(pre.m_indicesOutline, geo.m_indicesOutline)

\* a Box::add call on a mesh that held vertices, triangles and outline segments
C19_Witness ==
    /\ op.name = "Box"
    /\ Len(pre.m_vertices) > 0
    /\ Len(pre.m_indicesTriangles) > 0
    /\ Len(pre.m_indicesOutline) > 0
    /\ AddedVertices > 0
    /\ AddedTriangles > 0

\* C20: Mesh::append terminates for every receiver and every source, the receiver
\* itself included (m.append(m)), and on return the receiver holds its old number of
\* vertices plus the number of vertices the source had when the call was made.  An
\* append that only pushes and ends with that number never holds more during the call.
C20_AppendEndsWithBothCounts ==
    /\ app.pc # "idle" => Len(geo.m_vertices) <= app.offset + app.count
    /\ app.pc \in {"triangles", "outline"} => Len(geo.m_vertices) = app.offset + app.count

\* the last call had a segment count of 0
DegenerateCall ==
    /\ op.name \in {"Plane", "Box", "Sphere", "Torus"}
    /\ op.w = 0 \/ op.h = 0 \/ (op.name = "Box" /\ op.d = 0)

\* C21: a Plane, Box, Sphere or Torus add call with a segment count of 0 returns
\* without an error, appends no triangle for a grid with a count of 0 (for a Box: only
\* the triangles of its faces without a count of 0), and every index it appends is
\* less than the number of vertices of the mesh afterwards.
C21_ZeroSegmentsDegenerate ==
    DegenerateCall =>
        /\ AddedVertices > 0
        /\ AddedTriangles =
              IF op.name = "Box" THEN 4 * (op.w * op.h + op.d * op.h + op.w * op.d) ELSE 0
        /\ \A k \in (Len(pre.m_indicesTriangles) + 1)..Len(geo.m_indicesTriangles) :
              \A e \in 1..3 :
                  /\ geo.m_indicesTriangles[k][e] >= 0
                  /\ geo.m_indicesTriangles[k][e] < Len(geo.m_vertices)
        /\ \A k \in (Len(pre.m_indicesOutline) + 1)..Len(geo.m_indicesOutline) :
              \A e \in 1..2 :
                  /\ geo.m_indicesOutline[k][e] >= 0
                  /\ geo.m_indicesOutline[k][e] < Len(geo.m_vertices)

\* Torus::add with w = 0 has appended outline segments to an empty mesh, where the
\* number of vertices is the least
C21_Witness ==
    /\ op.name = "Torus"
    /\ op.w = 0
    /\ op.h = 2
    /\ Len(pre.m_vertices) = 0
    /\ AddedOutline = 8
    /\ geo.m_vertices[1].position[1] = NaN

\* the index at which the last call, a Torus::add, appended the vertex of
\* (latitude, longitude): the vertex loops run over latitude 0..w and, inside, over
\* longitude 0..h
TorusVertexPlace(latitude, longitude) ==
    Len(pre.m_vertices) + latitude * (op.h + 1) + longitude

\* (latitude, longitude) of the vertex appended at index i by the last call
TorusGridPoint(i) ==
    <<(i - Len(pre.m_vertices)) \div (op.h + 1), (i - Len(pre.m_vertices)) % (op.h + 1)>>

\* the outline segment number k appended by the last call
AddedOutlineSegment(k) == geo.m_indicesOutline[Len(pre.m_indicesOutline) + k]

\* C22: for all w, h >= 1, w # h included, every index Torus::add emits for
\* (latitude, longitude) is the index at which the vertex of that (latitude, longitude)
\* was appended: the two triangles of cell (latitude, longitude) refer to its four
\* corner vertices, and every outline segment joins two grid-adjacent vertices.
C22_TorusIndicesMatchVertices ==
    op.name = "Torus" =>
        /\ \A latitude \in 0..(op.w - 1), longitude \in 0..(op.h - 1) :
              LET cell == latitude * op.h + longitude
              IN  /\ AddedTriangle(2 * cell + 1)
                        = <<TorusVertexPlace(latitude, longitude),
                            TorusVertexPlace(latitude, longitude + 1),
                            TorusVertexPlace(latitude + 1, longitude)>>
                  /\ AddedTriangle(2 * cell + 2)
                        = <<TorusVertexPlace(latitude + 1, longitude),
                            TorusVertexPlace(latitude, longitude + 1),
                            TorusVertexPlace(latitude + 1, longitude + 1)>>
        /\ \A k \in 1..AddedOutline :
              LET a == AddedOutlineSegment(k)[1]
                  b == AddedOutlineSegment(k)[2]
              IN  /\ a >= Len(pre.m_vertices) /\ a < Len(geo.m_vertices)
                  /\ b >= Len(pre.m_vertices) /\ b < Len(geo.m_vertices)
                  /\ Abs(TorusGridPoint(a)[1] - TorusGridPoint(b)[1])
                        + Abs(TorusGridPoint(a)[2] - TorusGridPoint(b)[2]) = 1

\* max(level, 0)
RoundsOf(level) == IF level < 0 THEN 0 ELSE level

\* C23: RandomMengerSponge::add ends its loop after exactly max(level, 0) split
\* rounds; at the start of every round the receiving buffer is empty, so that after
\* round i the working set holds only cubes made in round i, all of size 0.5 / 3^i and
\* none left from earlier rounds, and in deterministic mode exactly 20^i cubes.
C23_SpongeRounds ==
    sponge.pc # "idle" =>
        /\ sponge.i >= 0
        /\ sponge.i <= RoundsOf(sponge.level)
        /\ sponge.pc \in {"boxes", "done"} => sponge.i = RoundsOf(sponge.level)
        /\ sponge.next = <<>>
        /\ \A j \in 1..Len(sponge.previous) :
              sponge.previous[j].m_size * Pow(3, sponge.i) = InitialCube.m_size
        /\ \A j \in 1..Len(sponge.before) :
              sponge.before[j].m_size * Pow(3, sponge.i - 1) = InitialCube.m_size
        /\ Deterministic(sponge.prob) => Len(sponge.previous) = Pow(20, sponge.i)

\* the loop of a deterministic call with level 2 has ended after its second round
C23_Witness ==
    /\ sponge.pc = "boxes"
    /\ sponge.level = 2
    /\ sponge.i = 2
    /\ Deterministic(sponge.prob)
    /\ Len(sponge.previous) = 400
    /\ sponge.previous[400].m_size * 9 = InitialCube.m_size

\* C24: flipWinding changes only the first and the third component of each triangle,
\* which it exchanges: the vertices, the outline indices, the number and the order of
\* the triangles and the middle component of each triangle stay as they were.
C24_FlipWindingFrame ==
    op.name = "flipWinding" =>
        /\ geo.m_vertices = pre.m_vertices
        /\ geo.m_indicesOutline = pre.m_indicesOutline
        /\ Len(geo.m_indicesTriangles) = Len(pre.m_indicesTriangles)
        /\ \A i \in 1..Len(pre.m_indicesTriangles) :
              /\ geo.m_indicesTriangles[i][1] = pre.m_indicesTriangles[i][3]
              /\ geo.m_indicesTriangles[i][2] = pre.m_indicesTriangles[i][2]
              /\ geo.m_indicesTriangles[i][3] = pre.m_indicesTriangles[i][1]

\* flipWinding has been applied to a mesh with vertices, outline segments and several
\* triangles, of which the first and the last differ
C24_Witness ==
    /\ op.name = "flipWinding"
    /\ Len(pre.m_vertices) > 0
    /\ Len(pre.m_indicesOutline) > 0
    /\ Len(pre.m_indicesTriangles) > 1
    /\ pre.m_indicesTriangles[1] # pre.m_indicesTriangles[Len(pre.m_indicesTriangles)]
    /\ geo.m_indicesTriangles[1][2] # geo.m_indicesTriangles[1][1]

\* the uniform scale among the matrices of the model, by 2
Scaling == Scale(2 * Unit)

\* C25: Plane, Box and Sphere store transform * (p, 1) as position and
\* transform * (n, 0) as normal, without renormalising: against the same call with the
\* identity, a translation moves every position by the translation and leaves every
\* normal as it is, and a uniform scale by k multiplies every stored normal by k.
C25_TransformOfPositionAndNormal ==
    (op.name \in {"Plane", "Box", "Sphere"} /\ op.mat \in {Translation, Scaling}) =>
        LET plain == AddWith(op, pre, Identity)
        IN  /\ Len(plain.m_vertices) = Len(geo.m_vertices)
            /\ \A k \in (Len(pre.m_vertices) + 1)..Len(geo.m_vertices) :
                  LET v == geo.m_vertices[k]
                      u == plain.m_vertices[k]
                  IN  IF op.mat = Translation
                      THEN /\ v.position = <<u.position[1] + Unit, u.position[2] + 2 * Unit,
                                              u.position[3] + 3 * Unit, Unit>>
                           /\ v.normal = u.normal
                      ELSE /\ v.normal = <<2 * u.normal[1], 2 * u.normal[2], 2 * u.normal[3], 0>>
                           /\ v.position = <<2 * u.position[1], 2 * u.position[2],
                                              2 * u.position[3], Unit>>

\* a Sphere::add call under the uniform scale has stored a normal of twice the length
\* of its position on the unit sphere
C25_Witness ==
    /\ op.name = "Sphere"
    /\ op.mat = Scaling
    /\ op.w = 2
    /\ op.h = 2
    /\ geo.m_vertices[Len(geo.m_vertices)].normal = <<0, 0, 2 * Unit, 0>>

\* the six directions of the axes, as normals
AxisDirections ==
    {<<Unit, 0, 0, 0>>, <<0 - Unit, 0, 0, 0>>, <<0, Unit, 0, 0>>, <<0, 0 - Unit, 0, 0>>,
     <<0, 0, Unit, 0>>, <<0, 0, 0 - Unit, 0>>}

\* the vertices appended by the last call that have the normal n
VerticesWithNormal(n) ==
    {k \in (Len(pre.m_vertices) + 1)..Len(geo.m_vertices) : geo.m_vertices[k].normal = n}

\* the segment counts of a Box::add call along the world axes X, Y and Z
BoxSegmentsAlong(o) == <<o.w, o.h, o.d>>

\* C26: with exact rotations by 90 degrees the six Plane calls of Box::add make faces
\* whose normals are the six different directions of the axes; each face lies in the
\* plane at distance 1 from the centre of the box along its normal, and on every face
\* the number of segments along the world axes X, Y and Z is w, h and d.
C26_BoxFaces ==
    (op.name = "Box" /\ op.mat = Identity) =>
        /\ \A k \in (Len(pre.m_vertices) + 1)..Len(geo.m_vertices) :
              geo.m_vertices[k].normal \in AxisDirections
        /\ \A n \in AxisDirections :
              LET face == VerticesWithNormal(n)
                  along(axis) == {geo.m_vertices[k].position[axis] : k \in face}
              IN  /\ face # {}
                  /\ \A axis \in 1..3 :
                        IF n[axis] # 0
                        THEN along(axis) = {n[axis]}
                        ELSE /\ Cardinality(along(axis)) = BoxSegmentsAlong(op)[axis] + 1
                             /\ MinOf(along(axis)) = 0 - Unit
                             /\ MaxOf(along(axis)) = Unit
                  /\ Cardinality(face)
                        = Cardinality(along(1)) * Cardinality(along(2)) * Cardinality(along(3))

\* a Box::add call with the identity and a height that differs from width and depth,
\* on a mesh that holds vertices
C26_Witness ==
    /\ op.name = "Box"
    /\ op.mat = Identity
    /\ op.w = 2
    /\ op.h = 1
    /\ op.d = 2
    /\ Len(pre.m_vertices) > 0
    /\ Cardinality(VerticesWithNormal(<<0, Unit, 0, 0>>)) = 9

\* (longitude column, latitude row) of the vertex with index i of the last call, a
\* Sphere::add
SphereGridPoint(i) ==
    <<(i - Len(pre.m_vertices)) % (op.w + 1), (i - Len(pre.m_vertices)) \div (op.w + 1)>>

\* the outline segment number k appended by the last call, as its two grid points
SphereOutlineEnds(k) ==
    {SphereGridPoint(AddedOutlineSegment(k)[1]), SphereGridPoint(AddedOutlineSegment(k)[2])}

\* C27: Sphere::add with w, h >= 1 appends exactly w + 4*h outline segments: w
\* segments that join consecutive vertices of latitude row floor(h / 2) and, for each i
\* of 0..3, h segments that join vertically adjacent vertices of longitude column
\* floor(w * i / 4); every outline segment joins two grid-adjacent vertices.
C27_SphereOutline ==
    op.name = "Sphere" =>
        /\ AddedOutline = op.w + 4 * op.h
        /\ \A k \in 1..AddedOutline : \A e \in 1..2 :
              /\ AddedOutlineSegment(k)[e] >= Len(pre.m_vertices)
              /\ AddedOutlineSegment(k)[e] < Len(geo.m_vertices)
        /\ \A xy \in 0..(op.w - 1) :
              SphereOutlineEnds(xy + 1) = {<<xy, op.h \div 2>>, <<xy + 1, op.h \div 2>>}
        /\ \A i \in 0..3, z \in 0..(op.h - 1) :
              SphereOutlineEnds(op.w + i * op.h + z + 1)
                  = {<<(op.w * i) \div 4, z>>, <<(op.w * i) \div 4, z + 1>>}
        /\ \A k \in 1..AddedOutline : \E a, b \in SphereOutlineEnds(k) :
              Abs(a[1] - b[1]) + Abs(a[2] - b[2]) = 1

\* a Sphere::add call whose rows and columns are enough for the ring and the
\* meridians to lie apart, on a mesh that holds vertices
C27_Witness ==
    /\ op.name = "Sphere"
    /\ op.w = 2
    /\ op.h = 3
    /\ Len(pre.m_vertices) > 0
    /\ AddedOutline = 14
    /\ SphereOutlineEnds(2 + 2 * 3 + 1) = {<<1, 0>>, <<1, 1>>}

\* ---- C28 -------------------------------------------------------------------------------
\* the pixel an element of the buffer belongs to
PixelOf(res, e) == <<(e \div 3) % res[1], (e \div 3) \div res[1]>>

InsideResolution(res, id) == id[1] < res[1] /\ id[2] < res[2]

\* the invocations of the dispatch that have run
InvocationsRun ==
    GlobalInvocations(<<GroupCount(image.res[1], image.local[1]),
                        GroupCount(image.res[2], image.local[2])>>, image.local)
        \ image.pending

\* the dispatch of the application at its own size, 800 by 600 in groups of 16 by 8:
\* the groups are ceil(800/16) by ceil(600/8), every pixel is an invocation, an
\* invocation of a pixel writes three elements of the buffer that belong to that
\* pixel and to no other, and an invocation outside writes nothing
DispatchAtProgramSize ==
    LET groups == <<GroupCount(img_width, workgroup_width),
                    GroupCount(img_height, workgroup_height)>>
        local == <<local_size_x, local_size_y>>
    IN  /\ local = <<workgroup_width, workgroup_height>>
        /\ resolution = <<img_width, img_height>>
        /\ \A k \in 1..2 : /\ groups[k] * local[k] >= resolution[k]
                           /\ (groups[k] - 1) * local[k] < resolution[k]
        /\ \A id \in GlobalInvocations(groups, local) :
              LET written == main(resolution, id)
              IN  IF InsideResolution(resolution, id)
                  THEN /\ Cardinality(written) = 3
                       /\ \A e \in written :
                             /\ e < BufferFloats(img_width, img_height)
                             /\ PixelOf(resolution, e) = id
                  ELSE written = {}

\* C28: in the dispatch of ceil(width / local x) by ceil(height / local y) workgroups,
\* no element of the storage buffer is written by two invocations, every write falls
\* inside the buffer of width * height * 3 floats, an invocation of a pixel inside
\* the resolution writes the elements 3 * (y * width + x) + c of its pixel, an
\* invocation outside writes nothing, and once the dispatch is complete every element
\* of every pixel is written by exactly the invocation of that pixel; the same holds
\* of the index arithmetic at 800 by 600 in groups of 16 by 8
C28_DispatchWritesEachPixelOnce ==
    /\ DispatchAtProgramSize
    /\ image.stray = {}
    /\ \A e \in DOMAIN image.imageData : Cardinality(image.imageData[e]) <= 1
    /\ \A id \in InvocationsRun :
          LET own == {e \in DOMAIN image.imageData : id \in image.imageData[e]}
          IN  IF InsideResolution(image.res, id)
              THEN own = {3 * (id[2] * image.res[1] + id[1]) + c : c \in 0..2}
              ELSE own = {}
    /\ image.pc = "done" =>
          \A x \in 0..(image.res[1] - 1), y \in 0..(image.res[2] - 1), c \in 0..2 :
              image.imageData[3 * (y * image.res[1] + x) + c] = {<<x, y>>}

\* a complete dispatch whose groups reach beyond the image in both directions, so
\* that invocations outside the resolution have run beside those of the pixels
C28_Witness ==
    /\ image.pc = "done"
    /\ image.res = <<3, 1>>
    /\ image.local = <<2, 2>>
    /\ Cardinality(InvocationsRun) = 8
    /\ \A e \in 0..8 : Cardinality(image.imageData[e]) = 1

\* ---- C29 -------------------------------------------------------------------------------
\* the calls of a single-time command buffer, in their order
SingleTimeOrder ==
    <<"vkAllocateCommandBuffers", "vkBeginCommandBuffer", "vkEndCommandBuffer",
      "vkQueueSubmit", "vkQueueWaitIdle", "vkFreeCommandBuffers">>

\* the places of the log where one of these calls was made on a command buffer; a
\* wait is made on the command buffers that were pending when it returned
LifecyclePlaces(c) ==
    {k \in DOMAIN host.log :
        /\ \E i \in DOMAIN SingleTimeOrder : host.log[k].call = SingleTimeOrder[i]
        /\ \/ host.log[k].target = c
           \/ c \in host.log[k].uses
           \/ c \in host.log[k].retired}

RECURSIVE CallsAt(_, _)
CallsAt(places, from) ==
    IF from > Len(host.log) THEN <<>>
    ELSE (IF from \in places THEN <<host.log[from].call>> ELSE <<>>)
         \o CallsAt(places, from + 1)

Lifecycle(c) == CallsAt(LifecyclePlaces(c), 1)

\* the places of the log where a command buffer was submitted, and where a wait
\* that followed returned
SubmittedAt(c) ==
    {k \in DOMAIN host.log : host.log[k].call = "vkQueueSubmit" /\ c \in host.log[k].uses}

WaitedAt(c) ==
    {k \in DOMAIN host.log : host.log[k].call = "vkQueueWaitIdle" /\ c \in host.log[k].retired}

\* the places of the log where the host read, destroyed or freed an object
TouchedAt(x) ==
    {k \in DOMAIN host.log :
        /\ host.log[k].target = x
        /\ host.log[k].call \in HostReads \cup Destroys \cup {"vkFreeCommandBuffers"}}

\* C29: no object used by a submitted command buffer, nor the command buffer, is
\* read by the host, destroyed or freed before the vkQueueWaitIdle that follows
\* the submission has returned, and the queue never runs a command whose objects
\* are gone; the output storage buffer is read only when the dispatch is complete;
\* each single-time command buffer goes through allocate, begin, end, submit,
\* wait-idle, free in that order, each once, and through all of them when main ends
C29_NothingTouchedBeforeWaitIdle ==
    /\ host.hazards = {}
    /\ \A c \in CommandBuffers :
          /\ IsPrefix(Lifecycle(c), SingleTimeOrder)
          /\ host.pc = Len(mainProgram) => Lifecycle(c) = SingleTimeOrder
          /\ \A s \in SubmittedAt(c), x \in UsedBy(host, c) \cup {c} :
                \A k \in TouchedAt(x) : \E w \in WaitedAt(c) : s < w /\ w < k
    /\ \A k \in DOMAIN host.log :
          host.log[k].call = "stbi_write_hdr" => image.pc = "done"

\* main has ended after a dispatch in which invocations ran outside the image: both
\* command buffers were submitted, waited for and freed, the staging buffers were
\* destroyed after the copies and the output was read after the dispatch
C29_Witness ==
    /\ host.pc = Len(mainProgram)
    /\ image.pc = "done"
    /\ image.res = <<3, 2>>
    /\ image.local = <<2, 1>>
    /\ \A c \in CommandBuffers : host.cmd[c].state = "freed" /\ WaitedAt(c) # {}
    /\ host.objects["tempStagingBuffer2vertex"] = "destroyed"
    /\ "tempStagingBuffer2vertex" \in UsedBy(host, "storage2LocalCmdBuffer")
    /\ "stgBuffer" \in UsedBy(host, "cmdBuffer")
    /\ TouchedAt("stgBuffer") # {}

\* ---- C30 -------------------------------------------------------------------------------
\* the memory types of the device that suit the buffer and the requested flags
SuitableTypes == {i \in 0..(Len(buf.memoryTypes) - 1) : Suitable(buf, i)}

\* C30: createBuffer hands vkAllocateMemory only the index of a memory type whose bit
\* is set in memoryTypeBits and whose propertyFlags contain all requested flags, and
\* when no memory type is such it does not reach vkAllocateMemory
C30_AllocatesFromSuitableTypeOrFails ==
    /\ buf.allocated \subseteq SuitableTypes
    /\ SuitableTypes = {} => buf.pc \notin {"allocate", "returned"}

\* what the loop does keep: when some memory type suits, the index handed to
\* vkAllocateMemory is the last of them
AllocatesFromLastSuitableType ==
    (buf.pc = "returned" /\ SuitableTypes # {}) =>
        buf.allocated = {MaxOf(SuitableTypes)}

====
